---- MODULE Spec2Model ----
(***************************************************************************)
(* Event-sourced turn reducer (chatReducer) and knowledge-graph merger of  *)
(* the chat frontend.                                                      *)
(*                                                                         *)
(* Representation.  A JavaScript string is a sequence of one-character     *)
(* strings (<<"a","b">> is "ab"); a missing optional string is the marker  *)
(* sequence `undefined`.  Identifiers (run_id, tool_use_id, tool_name,     *)
(* node keys) are TLA+ strings and the missing identifier is NULL.         *)
(* Edge weights are integers counting tenths (4 is 0.4).                   *)
(***************************************************************************)
EXTENDS Integers, Sequences, FiniteSets, TLC

VARIABLES
    threadId,      \* ChatState.threadId
    activeRunId,   \* ChatState.activeRunId
    turns,         \* ChatState.turns
    kgGraph,       \* ChatState.kgGraph
    error,         \* ChatState.error
    idSeq,         \* number of turn ids generated so far by makeTurn
    history,       \* the actions dispatched to the reducer so far, in order
    existing,      \* appendChunk: first argument of the last call
    incoming,      \* appendChunk: second argument of the last call
    appended,      \* appendChunk: value returned by the last call
    deliveries,    \* appendChunk: number of times `incoming` was appended
    scoredGraph,   \* power iteration: the graph handed to the scorer
    rankNow,       \* power iteration: `ranks`, as exact fractions
    rounds,        \* power iteration: `iter`, the rounds completed
    exited,        \* power iteration: the loop has been left
    stored,        \* power iteration: metrics.pagerank written to the nodes
    queue,         \* scheduler: the events held, oldest first
    connected,     \* scheduler: the transport is connected
    timerArmed,    \* scheduler: a tick is pending
    accepted,      \* scheduler: the events enqueued since the connection opened
    delivered,     \* scheduler: the events dispatched since the connection opened
    batch,         \* scheduler: the events dispatched by the last tick
    trace,         \* persisted run: the trace blocks stored for its answer
    fetches        \* page: the threads whose messages are being fetched

vars == <<threadId, activeRunId, turns, kgGraph, error, idSeq, history,
          existing, incoming, appended, deliveries,
          scoredGraph, rankNow, rounds, exited, stored,
          queue, connected, timerArmed, accepted, delivered, batch, trace,
          fetches>>

chatVars == <<threadId, activeRunId, turns, kgGraph, error, idSeq, history>>
chunkVars == <<existing, incoming, appended, deliveries>>
rankVars == <<scoredGraph, rankNow, rounds, exited, stored>>
schedVars == <<queue, connected, timerArmed, accepted, delivered, batch>>
traceVars == <<trace>>
pageVars == <<fetches>>

(***************************************************************************)
(* Bounds of the model.                                                    *)
(***************************************************************************)
MaxLen == 3          \* longest string handed to appendChunk
MaxEvents == 3       \* longest sequence of reducer actions explored
MaxDeliveries == 3   \* deliveries of one chunk to appendChunk

NULL == "undefined"
undefined == <<"undefined">>
Chars == {"a", "b"}

RECURSIVE StringsUpTo(_)
StringsUpTo(n) ==
    IF n = 0 THEN {<<>>}
    ELSE LET shorter == StringsUpTo(n - 1)
         IN  shorter \cup {Append(s, c) : s \in {t \in shorter : Len(t) = n - 1}, c \in Chars}

\* String.prototype.startsWith
startsWith(s, prefix) ==
    /\ Len(prefix) <= Len(s)
    /\ SubSeq(s, 1, Len(prefix)) = prefix

\* String.prototype.endsWith
endsWith(s, suffix) ==
    /\ Len(suffix) <= Len(s)
    /\ SubSeq(s, Len(s) - Len(suffix) + 1, Len(s)) = suffix

\* `value ?? ""` for an optional string
orEmpty(s) == IF s = undefined THEN <<>> ELSE s

appendChunkNoTail(existingArg, incomingArg) ==
    LET current == orEmpty(existingArg)
        chunk == orEmpty(incomingArg)
    IN  IF chunk = <<>> THEN current
        ELSE IF current = <<>> THEN chunk
        ELSE IF startsWith(chunk, current) THEN chunk
        ELSE current \o chunk

appendChunkNoPrefix(existingArg, incomingArg) ==
    LET current == orEmpty(existingArg)
        chunk == orEmpty(incomingArg)
    IN  IF chunk = <<>> THEN current
        ELSE IF current = <<>> THEN chunk
        ELSE IF endsWith(current, chunk) THEN current
        ELSE current \o chunk

appendChunk(existingArg, incomingArg) ==
    LET current == orEmpty(existingArg)
        chunk == orEmpty(incomingArg)
    IN  IF chunk = <<>> THEN current
        ELSE IF current = <<>> THEN chunk
        ELSE IF startsWith(chunk, current) THEN chunk
        ELSE IF endsWith(current, chunk) THEN current
        ELSE current \o chunk

(***************************************************************************)
(* Knowledge-graph merger.  A JavaScript object used as a map             *)
(* (nodes_by_key, edges_by_key) is the sequence of its entries in          *)
(* insertion order, each entry carrying its key.                           *)
(***************************************************************************)
\* String.prototype.trim on the identifiers of the model
trim(s) ==
    CASE s = " " -> ""
      [] s = " Drug" -> "Drug"
      [] s = " bash_exec" -> "bash_exec"
      [] OTHER -> s

\* a || b on strings
orElse(a, b) == IF a = "" \/ a = NULL THEN b ELSE a

\* Math.max
max(a, b) == IF a >= b THEN a ELSE b

EMPTY_METRICS ==
    [pagerank |-> 0, weighted_degree |-> 0, edge_type_diversity |-> 0,
     in_degree |-> 0, out_degree |-> 0,
     weighted_in_degree |-> 0, weighted_out_degree |-> 0]

EMPTY_SCORE ==
    [importance_score |-> 0, normalized_pagerank |-> 0,
     normalized_weighted_degree |-> 0, normalized_edge_type_diversity |-> 0,
     rank_in_type |-> 0, is_top_in_type |-> FALSE]

createEmptyKgMergedGraph ==
    [nodes_by_key |-> <<>>,
     edges_by_key |-> <<>>,
     summary |-> [node_count |-> 0, edge_count |-> 0, node_type_count |-> 0]]

stableNodeType(nodeType) == orElse(trim(nodeType), "Unknown")

edgeKey(edge) == <<edge.source, "|", edge.type, "|", edge.target>>

\* position of the entry stored under `key` in a map, 0 when absent
indexOfKey(entries, key) ==
    IF \E i \in 1..Len(entries) : entries[i].key = key
    THEN CHOOSE i \in 1..Len(entries) : entries[i].key = key
    ELSE 0

\* [...new Set(items)]
RECURSIVE uniqueInOrder(_)
uniqueInOrder(items) ==
    IF items = <<>> THEN <<>>
    ELSE LET front == uniqueInOrder(SubSeq(items, 1, Len(items) - 1))
             last == items[Len(items)]
         IN  IF \E i \in 1..Len(front) : front[i] = last
             THEN front ELSE Append(front, last)

\* a summary that counts one type per node
recomputeSummaryTypePerNode(graph) ==
    [node_count |-> Len(graph.nodes_by_key),
     edge_count |-> Len(graph.edges_by_key),
     node_type_count |-> Len(graph.nodes_by_key)]

recomputeSummary(graph) ==
    [node_count |-> Len(graph.nodes_by_key),
     edge_count |-> Len(graph.edges_by_key),
     node_type_count |->
        Cardinality({stableNodeType(graph.nodes_by_key[i].node_type) :
                        i \in 1..Len(graph.nodes_by_key)})]

\* body of the loop over subgraph.nodes
mergeNode(nextNodes, node) ==
    LET i == indexOfKey(nextNodes, node.key)
    IN  IF i = 0
        THEN Append(nextNodes,
                [key |-> node.key,
                 id |-> orElse(node.id, node.key),
                 name |-> orElse(node.name, orElse(node.id, node.key)),
                 node_type |-> stableNodeType(node.node_type),
                 labels |-> uniqueInOrder(node.labels),
                 seen_count |-> 1,
                 metrics |-> EMPTY_METRICS,
                 score |-> EMPTY_SCORE])
        ELSE [nextNodes EXCEPT ![i] =
                [@ EXCEPT !.id = orElse(node.id, @),
                          !.name = orElse(node.name, @),
                          !.node_type = stableNodeType(orElse(node.node_type, @)),
                          !.labels = uniqueInOrder(@ \o node.labels),
                          !.seen_count = @ + 1]]

mergeEdgeSum(nextEdges, edge) ==
    LET key == edgeKey(edge)
        i == indexOfKey(nextEdges, key)
    IN  IF i = 0
        THEN Append(nextEdges,
                [key |-> key,
                 source |-> edge.source,
                 target |-> edge.target,
                 type |-> edge.type,
                 weight |-> max(0, edge.weight),
                 confidence_key |-> edge.confidence_key,
                 seen_count |-> 1])
        ELSE [nextEdges EXCEPT ![i] =
                [@ EXCEPT !.weight = @ + max(0, edge.weight),
                          !.confidence_key =
                              IF edge.confidence_key # NULL
                              THEN edge.confidence_key ELSE @,
                          !.seen_count = @ + 1]]

\* body of the loop over subgraph.edges
mergeEdge(nextEdges, edge) ==
    LET key == edgeKey(edge)
        i == indexOfKey(nextEdges, key)
    IN  IF i = 0
        THEN Append(nextEdges,
                [key |-> key,
                 source |-> edge.source,
                 target |-> edge.target,
                 type |-> edge.type,
                 weight |-> max(0, edge.weight),
                 confidence_key |-> edge.confidence_key,
                 seen_count |-> 1])
        ELSE [nextEdges EXCEPT ![i] =
                [@ EXCEPT !.weight = max(@, max(0, edge.weight)),
                          !.confidence_key =
                              IF edge.confidence_key # NULL
                              THEN edge.confidence_key ELSE @,
                          !.seen_count = @ + 1]]

RECURSIVE mergeNodes(_, _)
mergeNodes(nextNodes, nodes) ==
    IF nodes = <<>> THEN nextNodes
    ELSE mergeNodes(mergeNode(nextNodes, Head(nodes)), Tail(nodes))

RECURSIVE mergeEdges(_, _)
mergeEdges(nextEdges, edges) ==
    IF edges = <<>> THEN nextEdges
    ELSE mergeEdges(mergeEdge(nextEdges, Head(edges)), Tail(edges))

mergeSubgraphIntoThreadGraph(graph, subgraph) ==
    LET merged == [graph EXCEPT
                     !.nodes_by_key = mergeNodes(graph.nodes_by_key, subgraph.nodes),
                     !.edges_by_key = mergeEdges(graph.edges_by_key, subgraph.edges)]
    IN  [merged EXCEPT !.summary = recomputeSummary(merged)]

(***************************************************************************)
(* Importance scorer.  Ranks, normalized values and scores are fixed-point *)
(* numbers with ScaleOne standing for 1.0; the damping factor 0.85 is      *)
(* 85/100 and the score weights 0.55, 0.30, 0.15 are 55, 30, 15 over 100.  *)
(***************************************************************************)
ScaleOne == 10000
DampingPct == 85
MaxIter == 100

RECURSIVE sumOver(_, _)
sumOver(f, indices) ==
    IF indices = {} THEN 0
    ELSE LET i == CHOOSE j \in indices : TRUE
         IN  f[i] + sumOver(f, indices \ {i})

abs(x) == IF x < 0 THEN -x ELSE x

\* the array f[1], ..., f[n]
RECURSIVE arrayOf(_, _)
arrayOf(f, n) == IF n = 0 THEN <<>> ELSE Append(arrayOf(f, n - 1), f[n])

\* one round of the power iteration: ranks, adjacency and outWeight are
\* indexed by the position of the node in nodeKeys
pageRankRound(n, ranks, adjacency, outWeight) ==
    LET dangling == sumOver([i \in 1..n |-> IF outWeight[i] <= 0 THEN ranks[i] ELSE 0], 1..n)
        teleport == ((100 - DampingPct) * ScaleOne) \div (100 * n)
        inflow(target) ==
            sumOver([source \in 1..n |->
                        IF outWeight[source] <= 0 \/ ranks[source] <= 0 THEN 0
                        ELSE (DampingPct * ranks[source] * adjacency[source][target])
                                \div (100 * outWeight[source])], 1..n)
    IN  arrayOf([key \in 1..n |->
                    teleport + (DampingPct * dangling) \div (100 * n) + inflow(key)], n)

RECURSIVE pageRankLoop(_, _, _, _, _)
pageRankLoop(iter, n, ranks, adjacency, outWeight) ==
    IF iter >= MaxIter THEN ranks
    ELSE LET next == pageRankRound(n, ranks, adjacency, outWeight)
             delta == sumOver([i \in 1..n |-> abs(next[i] - ranks[i])], 1..n)
         IN  IF delta < 1 THEN next
             ELSE pageRankLoop(iter + 1, n, next, adjacency, outWeight)

computeWeightedPageRank(n, adjacency, outWeight) ==
    IF n = 0 THEN <<>>
    ELSE pageRankLoop(0, n, arrayOf([i \in 1..n |-> ScaleOne \div n], n),
                      adjacency, outWeight)

minOf(values, keys) == CHOOSE v \in {values[k] : k \in keys} : \A k \in keys : v <= values[k]
maxOf(values, keys) == CHOOSE v \in {values[k] : k \in keys} : \A k \in keys : v >= values[k]

\* a normalization that gives 0 to every partition of equal values
minMaxNormalizeFlatIsZero(values, keys) ==
    LET lo == minOf(values, keys)
        hi == maxOf(values, keys)
        span == hi - lo
    IN  [k \in keys |->
            IF span <= 0 THEN 0
            ELSE ((values[k] - lo) * ScaleOne) \div span]

\* minMaxNormalize over the nodes `keys` of one type
minMaxNormalize(values, keys) ==
    LET lo == minOf(values, keys)
        hi == maxOf(values, keys)
        span == hi - lo
    IN  [k \in keys |->
            IF span <= 0 THEN (IF hi > 0 THEN ScaleOne ELSE 0)
            ELSE ((values[k] - lo) * ScaleOne) \div span]

clamp(value, lo, hi) == IF value < lo THEN lo ELSE IF value > hi THEN hi ELSE value

\* collation order of the names of the model, as localeCompare sees them
NameOrder == <<"", "A", "Aspirin", "B", "C", "D", "Headache", "Z">>
localeIndex(name) == CHOOSE i \in 1..Len(NameOrder) : NameOrder[i] = name

\* a loop over the edges that skips none
linkedEdgesSkipsNone(graph) == graph.edges_by_key

\* the edges the loop over graph.edges_by_key does not skip: both endpoints
\* are nodes of the graph
linkedEdges(graph) ==
    SelectSeq(graph.edges_by_key, LAMBDA e :
        /\ indexOfKey(graph.nodes_by_key, e.source) # 0
        /\ indexOfKey(graph.nodes_by_key, e.target) # 0)

\* sum of Math.max(0, edge.weight || 0) over `edges`
RECURSIVE totalWeight(_)
totalWeight(edges) ==
    IF edges = <<>> THEN 0
    ELSE max(0, Head(edges).weight) + totalWeight(Tail(edges))

\* what the loop over the edges accumulates for one node, from the edges
\* leaving it and the edges entering it
degreeRow(outs, ins) ==
    [weighted_out_degree |-> totalWeight(outs),
     weighted_in_degree |-> totalWeight(ins),
     out_degree |-> Len(outs),
     in_degree |-> Len(ins),
     edge_type_diversity |->
        Cardinality({(outs \o ins)[k].type : k \in 1..(Len(outs) + Len(ins))})]

\* outWeight, inWeight, outDegree, inDegree and edgeTypeSets, by node position
degreesOf(nodes, edges) ==
    arrayOf([i \in 1..Len(nodes) |->
                degreeRow(SelectSeq(edges, LAMBDA e : e.source = nodes[i].key),
                          SelectSeq(edges, LAMBDA e : e.target = nodes[i].key))],
            Len(nodes))

\* adjacency[source][target], by node position; 0 where the source has no entry
adjacencyOf(nodes, edges) ==
    arrayOf([i \in 1..Len(nodes) |->
                arrayOf([j \in 1..Len(nodes) |->
                            totalWeight(SelectSeq(edges, LAMBDA e :
                                /\ e.source = nodes[i].key
                                /\ e.target = nodes[j].key))],
                        Len(nodes))],
            Len(nodes))

\* the metrics of every node: pagerank, weightedDegree, diversity, degrees
rawMetrics(degrees, pagerank) ==
    arrayOf([i \in 1..Len(degrees) |->
                [pagerank |-> pagerank[i],
                 weighted_degree |-> degrees[i].weighted_out_degree
                                        + degrees[i].weighted_in_degree,
                 edge_type_diversity |-> degrees[i].edge_type_diversity,
                 in_degree |-> degrees[i].in_degree,
                 out_degree |-> degrees[i].out_degree,
                 weighted_in_degree |-> degrees[i].weighted_in_degree,
                 weighted_out_degree |-> degrees[i].weighted_out_degree]],
            Len(degrees))

\* const pagerank = computeWeightedPageRank(nodeKeys, adjacency, outWeight)
metricsFrom(degrees, adjacency) ==
    rawMetrics(degrees,
               computeWeightedPageRank(
                   Len(degrees), adjacency,
                   arrayOf([i \in 1..Len(degrees) |-> degrees[i].weighted_out_degree],
                           Len(degrees))))

\* byType[nodeType] of the node at position i
sameType(nodes, i) ==
    {j \in 1..Len(nodes) :
        stableNodeType(nodes[j].node_type) = stableNodeType(nodes[i].node_type)}

\* the values of one metric, by node position
column(metrics, f) == [i \in 1..Len(metrics) |-> metrics[i][f]]

\* score and the normalized values it is made of
scoreRow(normPagerank, normWeightedDegree, normDiversity) ==
    [importance_score |-> (55 * normPagerank + 30 * normWeightedDegree
                             + 15 * normDiversity) \div 100,
     normalized_pagerank |-> normPagerank,
     normalized_weighted_degree |-> normWeightedDegree,
     normalized_edge_type_diversity |-> normDiversity]

scoresOf(nodes, metrics) ==
    arrayOf([i \in 1..Len(nodes) |->
                scoreRow(
                    minMaxNormalize(column(metrics, "pagerank"), sameType(nodes, i))[i],
                    minMaxNormalize(column(metrics, "weighted_degree"),
                                    sameType(nodes, i))[i],
                    minMaxNormalize(column(metrics, "edge_type_diversity"),
                                    sameType(nodes, i))[i])],
            Len(nodes))

\* the comparator of scored.sort puts a strictly before b
before(nodes, metrics, scores, a, b) ==
    IF scores[a].importance_score # scores[b].importance_score
    THEN scores[a].importance_score > scores[b].importance_score
    ELSE IF metrics[a].pagerank # metrics[b].pagerank
    THEN metrics[a].pagerank > metrics[b].pagerank
    ELSE IF metrics[a].weighted_degree # metrics[b].weighted_degree
    THEN metrics[a].weighted_degree > metrics[b].weighted_degree
    ELSE localeIndex(orElse(nodes[a].name, nodes[a].key))
            < localeIndex(orElse(nodes[b].name, nodes[b].key))

\* ranks that rows the comparator leaves equal share
rankInTypeSharedByTies(nodes, metrics, scores, i) ==
    1 + Cardinality({j \in sameType(nodes, i) : before(nodes, metrics, scores, j, i)})

\* rankByKey: the sort is stable, equal rows keep the order of `keys`
rankInType(nodes, metrics, scores, i) ==
    1 + Cardinality({j \in sameType(nodes, i) :
            \/ before(nodes, metrics, scores, j, i)
            \/ ~before(nodes, metrics, scores, i, j) /\ j < i})

\* nextNodes[key] for the node at position i
scoredNode(nodes, metrics, scores, i) ==
    [nodes[i] EXCEPT
       !.metrics = metrics[i],
       !.score =
          [importance_score |-> clamp(scores[i].importance_score, 0, ScaleOne),
           normalized_pagerank |-> clamp(scores[i].normalized_pagerank, 0, ScaleOne),
           normalized_weighted_degree |->
               clamp(scores[i].normalized_weighted_degree, 0, ScaleOne),
           normalized_edge_type_diversity |->
               clamp(scores[i].normalized_edge_type_diversity, 0, ScaleOne),
           rank_in_type |-> rankInType(nodes, metrics, scores, i),
           is_top_in_type |-> rankInType(nodes, metrics, scores, i) = 1]]

\* nextNodes is filled type by type, the types in the order of their first
\* node: typeRank is the position of the first node of the type of node i
typeRank(nodes, i) ==
    CHOOSE j \in sameType(nodes, i) : \A k \in sameType(nodes, i) : j <= k

\* the position in nextNodes of the node at position i
position(nodes, i) ==
    Cardinality({j \in 1..Len(nodes) :
                    \/ typeRank(nodes, j) < typeRank(nodes, i)
                    \/ typeRank(nodes, j) = typeRank(nodes, i) /\ j <= i})

rescoredNodes(nodes, metrics, scores) ==
    arrayOf([p \in 1..Len(nodes) |->
                scoredNode(nodes, metrics, scores,
                           CHOOSE i \in 1..Len(nodes) : position(nodes, i) = p)],
            Len(nodes))

\* the loop over Object.keys(byType)
scoreNodes(nodes, metrics) == rescoredNodes(nodes, metrics, scoresOf(nodes, metrics))

\* the loop over the edges and the call of computeWeightedPageRank
metricsOfNodes(nodes, edges) ==
    metricsFrom(degreesOf(nodes, edges), adjacencyOf(nodes, edges))

\* { ...graph, nodes_by_key: nextNodes, summary: recomputeSummary(...) }
withNodes(graph, nextNodes) ==
    [graph EXCEPT !.nodes_by_key = nextNodes,
                  !.summary = recomputeSummary([graph EXCEPT !.nodes_by_key = nextNodes])]

recomputeMergedImportanceStats(graph) ==
    IF graph.nodes_by_key = <<>>
    THEN [graph EXCEPT !.summary = recomputeSummary(graph)]
    ELSE withNodes(graph,
                   scoreNodes(graph.nodes_by_key,
                              metricsOfNodes(graph.nodes_by_key, linkedEdges(graph))))

\* a missing subgraph (data.subgraph is not an object)
noSubgraph == [defined |-> FALSE, nodes |-> <<>>, edges |-> <<>>]

KG_TOOL_NAMES == {"kg_query", "kg_cypher_execute"}

\* toStringValue(value, fallback) for a string or a missing value
toStringValue(value, fallback) ==
    IF value = NULL THEN fallback ELSE orElse(trim(value), fallback)

\* normalizeSubgraphNode: the key is "" when the row is dropped
normalizeSubgraphNode(row) ==
    LET key == toStringValue(row.key, "")
        labels == SelectSeq([i \in 1..Len(row.labels) |-> toStringValue(row.labels[i], "")],
                            LAMBDA l : l # "")
        nodeType == toStringValue(row.node_type,
                                  IF labels = <<>> THEN "Unknown" ELSE labels[1])
        id == toStringValue(row.id, key)
    IN  [key |-> key,
         id |-> id,
         name |-> toStringValue(row.name, id),
         node_type |-> orElse(nodeType, "Unknown"),
         labels |-> labels]

\* a missing weight is NoWeight; weights are in tenths, WeightOne is 1.0
NoWeight == -1
WeightOne == 10

\* normalizeSubgraphEdge: source or target is "" when the row is dropped
normalizeSubgraphEdge(row) ==
    [source |-> toStringValue(row.source, ""),
     target |-> toStringValue(row.target, ""),
     type |-> toStringValue(row.type, "RELATED_TO"),
     weight |-> max(0, IF row.weight = NoWeight THEN WeightOne ELSE row.weight),
     confidence_key |-> IF toStringValue(row.confidence_key, "") = "" THEN NULL
                        ELSE toStringValue(row.confidence_key, "")]

\* normalizeSubgraph giving up the whole batch when a row is dropped
normalizeSubgraphAllOrNothing(raw) ==
    IF ~raw.defined THEN noSubgraph
    ELSE IF \/ \E i \in 1..Len(raw.nodes) : normalizeSubgraphNode(raw.nodes[i]).key = ""
            \/ \E i \in 1..Len(raw.edges) :
                  \/ normalizeSubgraphEdge(raw.edges[i]).source = ""
                  \/ normalizeSubgraphEdge(raw.edges[i]).target = ""
    THEN [defined |-> TRUE, nodes |-> <<>>, edges |-> <<>>]
    ELSE [defined |-> TRUE,
          nodes |-> [i \in 1..Len(raw.nodes) |-> normalizeSubgraphNode(raw.nodes[i])],
          edges |-> [i \in 1..Len(raw.edges) |-> normalizeSubgraphEdge(raw.edges[i])]]

\* normalizeSubgraph: rows without key, source or target are filtered out
normalizeSubgraph(raw) ==
    IF ~raw.defined THEN noSubgraph
    ELSE [defined |-> TRUE,
          nodes |-> SelectSeq([i \in 1..Len(raw.nodes) |-> normalizeSubgraphNode(raw.nodes[i])],
                              LAMBDA n : n.key # ""),
          edges |-> SelectSeq([i \in 1..Len(raw.edges) |-> normalizeSubgraphEdge(raw.edges[i])],
                              LAMBDA e : e.source # "" /\ e.target # "")]

isSuccessfulResult(toolResult) == toolResult.status \in {"success", "completed"}

extractKgSubgraphFromToolResult(toolName, toolResult) ==
    IF ~toolResult.defined \/ ~isSuccessfulResult(toolResult) THEN noSubgraph
    ELSE LET normalizedTool == IF toolName = NULL THEN "" ELSE trim(toolName)
             isKgByToolName == normalizedTool # "" /\ normalizedTool \in KG_TOOL_NAMES
         IN  IF ~isKgByToolName /\ toolResult.source # "crossbar_kg" THEN noSubgraph
             ELSE normalizeSubgraph(toolResult.subgraph)

(***************************************************************************)
(* Turn reconstruction: records and helpers of chatReducer.                *)
(*                                                                         *)
(* A WorkStep or Turn always carries all its fields, a missing one holding *)
(* the marker of its type (undefined, NULL, NoIndex, undefinedResult).     *)
(* A step handed to upsertWorkStep is the record of the properties the     *)
(* object literal in the source lists, so that the spread                  *)
(* { ...next[idx], ...step } overrides exactly those.                      *)
(***************************************************************************)
NoIndex == -1

\* the object {} : every property missing
emptyResult ==
    [defined |-> TRUE, status |-> NULL, stdout |-> undefined,
     stderr |-> undefined, command |-> undefined, env |-> NULL,
     source |-> NULL, subgraph |-> noSubgraph]

\* a missing result
undefinedResult == [emptyResult EXCEPT !.defined = FALSE]

\* parseToolResultObject(event.result) ?? {}  and  event.result ?? {}
resultOrEmpty(result) == IF result.defined THEN result ELSE emptyResult

StepFields ==
    {"id", "kind", "text", "status", "segmentIndex", "toolUseId", "toolName",
     "title", "code", "command", "stdout", "stderr", "result", "replEnv"}

missingField(f) ==
    CASE f \in {"text", "title", "code", "command", "stdout", "stderr"} -> undefined
      [] f = "segmentIndex" -> NoIndex
      [] f = "result" -> undefinedResult
      [] f = "toolUseId" -> <<>>
      [] OTHER -> NULL

\* { ...old, ...step }
spread(old, step) ==
    [f \in StepFields |-> IF f \in DOMAIN step THEN step[f] ELSE old[f]]

\* the object literal `step` as a WorkStep
asWorkStep(step) ==
    [f \in StepFields |-> IF f \in DOMAIN step THEN step[f] ELSE missingField(f)]

\* workSteps.findIndex((item) => item.id === id) for an id that is found
findStepIndex(workSteps, id) ==
    CHOOSE i \in 1..Len(workSteps) :
        /\ workSteps[i].id = id
        /\ \A j \in 1..(i - 1) : workSteps[j].id # id

hasStep(workSteps, id) == \E i \in 1..Len(workSteps) : workSteps[i].id = id

\* a step none of whose properties is present: reading a property of a
\* missing step through ?. gives the same as reading it from this one
noStep == [f \in StepFields |-> missingField(f)]

\* seq[0] ?? fallback
firstOr(seq, fallback) == IF seq = <<>> THEN fallback ELSE Head(seq)

\* workSteps.find((step) => step.id === id)
findStep(workSteps, id) ==
    firstOr(SelectSeq(workSteps, LAMBDA item : item.id = id), noStep)

\* value ?? fallback
coalesce(value, missing, fallback) == IF value # missing THEN value ELSE fallback

\* existing?.field ?? fallback
fieldOr(workSteps, id, f, fallback) ==
    coalesce(findStep(workSteps, id)[f], missingField(f), fallback)

\* existing?.field
fieldOf(workSteps, id, f) == fieldOr(workSteps, id, f, missingField(f))

upsertWorkStepAlwaysAppend(workSteps, step) == Append(workSteps, asWorkStep(step))

\* an update that moves the step to the end of the list
upsertWorkStepMovesToEnd(workSteps, step) ==
    IF ~hasStep(workSteps, step.id) THEN Append(workSteps, asWorkStep(step))
    ELSE Append(SelectSeq(workSteps, LAMBDA item : item.id # step.id),
                spread(workSteps[findStepIndex(workSteps, step.id)], step))

upsertWorkStep(workSteps, step) ==
    IF ~hasStep(workSteps, step.id) THEN Append(workSteps, asWorkStep(step))
    ELSE [workSteps EXCEPT ![findStepIndex(workSteps, step.id)] = spread(@, step)]

appendWorkToken(workSteps, id, token) ==
    IF ~hasStep(workSteps, id) THEN workSteps
    ELSE [workSteps EXCEPT ![findStepIndex(workSteps, id)].text = @ \o token]

\* makeTurn: the k-th generated id stands for turn-${Date.now()}-${random}
makeTurn(k, runId, userText, status) ==
    [id |-> <<"turn", "fresh", ToString(k)>>,
     runId |-> runId,
     userText |-> userText,
     userMessageId |-> NULL,
     assistantText |-> <<>>,
     assistantMessageId |-> NULL,
     status |-> status,
     workSteps |-> <<>>]

\* a search that finds no turn
findTurnIndexByRunFindsNone(ts, runId) == 0

\* 0 when no turn has this run id
findTurnIndexByRun(ts, runId) ==
    IF runId # NULL /\ \E i \in 1..Len(ts) : ts[i].runId = runId
    THEN CHOOSE i \in 1..Len(ts) :
            /\ ts[i].runId = runId
            /\ \A j \in 1..(i - 1) : ts[j].runId # runId
    ELSE 0

isPendingTurn(turn) ==
    /\ turn.runId = NULL
    /\ turn.status = "streaming"
    /\ turn.assistantText = <<>>

\* 0 when there is no pending turn
findLatestPendingTurnIndex(ts) ==
    IF \E i \in 1..Len(ts) : isPendingTurn(ts[i])
    THEN CHOOSE i \in 1..Len(ts) :
            /\ isPendingTurn(ts[i])
            /\ \A j \in (i + 1)..Len(ts) : ~isPendingTurn(ts[j])
    ELSE 0

\* ensureTurn without the search for a pending turn
ensureTurnNoPending(ts, runId, k) ==
    LET byRun == findTurnIndexByRun(ts, runId)
    IN  IF byRun # 0
        THEN [turns |-> ts, index |-> byRun, shared |-> TRUE, made |-> 0]
        ELSE [turns |-> Append(ts, makeTurn(k, runId, <<>>, "streaming")),
              index |-> Len(ts) + 1, shared |-> FALSE, made |-> 1]

\* ensureTurn; `shared` tells whether turns[index] is still the very object
\* held by the list that was passed in (the by-run branch returns the list
\* itself, the other two branches build a new turn object)
ensureTurn(ts, runId, k) ==
    LET byRun == findTurnIndexByRun(ts, runId)
        pendingIdx == findLatestPendingTurnIndex(ts)
    IN  IF byRun # 0
        THEN [turns |-> ts, index |-> byRun, shared |-> TRUE, made |-> 0]
        ELSE IF pendingIdx # 0
        THEN [turns |-> [ts EXCEPT ![pendingIdx] =
                            [@ EXCEPT !.runId = IF runId # NULL THEN runId ELSE @,
                                      !.status = "streaming"]],
              index |-> pendingIdx, shared |-> FALSE, made |-> 0]
        ELSE [turns |-> Append(ts, makeTurn(k, runId, <<>>, "streaming")),
              index |-> Len(ts) + 1, shared |-> FALSE, made |-> 1]

\* JSON.stringify(value, null, 2) of a result object, as a sequence of pieces
safeJson(result) ==
    <<"{", "status:", result.status, "stdout:">> \o result.stdout
      \o <<"stderr:">> \o result.stderr
      \o <<"command:">> \o result.command
      \o <<"env:", result.env, "source:", result.source,
           "subgraph:", ToString(result.subgraph), "}">>

normalizeToolName(value) ==
    IF value = NULL \/ trim(value) = "" THEN NULL ELSE trim(value)

DISPLAYABLE_TOP_LEVEL_TOOLS == {"repl_exec", "bash_exec"}

isDisplayableTopLevelToolName(value) ==
    normalizeToolName(value) \in DISPLAYABLE_TOP_LEVEL_TOOLS

\* isUiVisible: ui_visible is TRUE, FALSE or missing (NULL)
isUiVisible(value) == value # "false"

(***************************************************************************)
(* chatReducer.  A state is the record of the ChatState fields plus idSeq; *)
(* a handler returns the next state together with `given`, the turn list   *)
(* of the state object it was called with as that object is left behind    *)
(* (assignments to `target` write into a turn object that the given list   *)
(* still holds whenever ensureTurn answered by run id).                    *)
(***************************************************************************)
\* an event none of whose optional properties is present
noEvent ==
    [type |-> NULL, thread_id |-> NULL, run_id |-> NULL, segment_index |-> NoIndex,
     token |-> undefined, content |-> undefined, summary |-> undefined,
     message_id |-> NULL, message |-> [id |-> NULL, content |-> undefined],
     tool_use_id |-> <<>>, parent_tool_use_id |-> NULL, tool_name |-> NULL,
     ui_visible |-> NULL, code |-> undefined, result |-> undefinedResult,
     env |-> NULL, error |-> NULL]

\* value.trim().length > 0 for a present string
nonBlank(str) == str # undefined /\ \E i \in 1..Len(str) : str[i] # " "

\* event.token if it is a string, else event.content if it is one, else ""
tokenOf(event) ==
    IF event.token # undefined THEN event.token ELSE orEmpty(event.content)

\* event.content if it is a string, else event.token if it is one, else ""
contentOf(event) ==
    IF event.content # undefined THEN event.content ELSE orEmpty(event.token)

\* `${runId ?? "norun"}-${event.segment_index ?? 0}`
runSegment(runId, event) ==
    <<IF runId = NULL THEN "norun" ELSE runId,
      ToString(IF event.segment_index = NoIndex THEN 0 ELSE event.segment_index)>>

thinkingStepId(runId, event) == <<"thinking">> \o runSegment(runId, event)

\* event.tool_use_id ?? `${prefix}-${runId ?? "norun"}-${segment_index ?? 0}`
toolUseIdOf(prefix, runId, event) ==
    IF event.tool_use_id # <<>> THEN event.tool_use_id
    ELSE <<prefix>> \o runSegment(runId, event)

baseStateOf(state, event) ==
    [state EXCEPT !.threadId = IF event.thread_id # NULL THEN event.thread_id ELSE @,
                  !.activeRunId = IF event.run_id # NULL THEN event.run_id ELSE @]

\* return baseState
unchangedTurns(base) == [state |-> base, given |-> base.turns]

\* const ensured = ensureTurn(...); const target = nextTurns[ensured.index];
\* <assignments to target>; nextTurns[ensured.index] = target;
\* return { ...baseState, turns: nextTurns }
withTurns(base, ensured, nextTurns) ==
    [state |-> [base EXCEPT !.turns = nextTurns, !.idSeq = @ + ensured.made],
     given |-> IF ensured.shared THEN nextTurns ELSE base.turns]

withTarget(base, ensured, Assign(_)) ==
    withTurns(base, ensured, [ensured.turns EXCEPT ![ensured.index] = Assign(@)])

\* const ensured = ensureTurn(baseState.turns, runId)
ensuredTurn(base, runId) == ensureTurn(base.turns, runId, base.idSeq)

\* the case forcing every turn to status error
onErrorFailsTurns(base, runId, event) ==
    [state |-> [base EXCEPT !.error = IF event.error # NULL THEN event.error
                                      ELSE "Unknown error",
                            !.turns = [i \in 1..Len(@) |-> [@[i] EXCEPT !.status = "error"]]],
     given |-> base.turns]

onError(base, runId, event) ==
    [state |-> [base EXCEPT !.error = IF event.error # NULL THEN event.error
                                      ELSE "Unknown error"],
     given |-> base.turns]

\* this case replaces the turn by a new object: the given list is untouched
onStart(base, runId, event) ==
    [withTarget(base, ensuredTurn(base, runId), LAMBDA target :
                    [target EXCEPT !.status = "streaming"])
        EXCEPT !.state.error = NULL, !.given = base.turns]

onThinkingStart(base, runId, event) ==
    withTarget(base, ensuredTurn(base, runId), LAMBDA target :
        [target EXCEPT
           !.workSteps = upsertWorkStep(@,
                [id |-> thinkingStepId(runId, event), kind |-> "thinking",
                 text |-> <<>>, status |-> "streaming",
                 segmentIndex |-> event.segment_index]),
           !.status = "streaming"])

onThinkingToken(base, runId, event) ==
    IF tokenOf(event) = <<>> THEN unchangedTurns(base)
    ELSE withTarget(base, ensuredTurn(base, runId), LAMBDA target :
            [target EXCEPT !.workSteps =
                appendWorkToken(@, thinkingStepId(runId, event), tokenOf(event))])

onThinkingEnd(base, runId, event) ==
    withTarget(base, ensuredTurn(base, runId), LAMBDA target :
        LET stepId == thinkingStepId(runId, event)
            finalSummary == IF nonBlank(event.summary) THEN event.summary
                            ELSE fieldOr(target.workSteps, stepId, "text", <<>>)
        IN  [target EXCEPT !.workSteps = upsertWorkStep(@,
                [id |-> stepId, kind |-> "thinking", text |-> finalSummary,
                 status |-> "done", segmentIndex |-> event.segment_index])])

onThinkingTitle(base, runId, event) ==
    withTarget(base, ensuredTurn(base, runId), LAMBDA target :
        LET stepId == thinkingStepId(runId, event)
        IN  IF hasStep(target.workSteps, stepId)
            THEN [target EXCEPT !.workSteps = upsertWorkStep(@,
                    [findStep(@, stepId) EXCEPT !.title = event.summary])]
            ELSE target)

onSegmentStart(base, runId, event) ==
    withTarget(base, ensuredTurn(base, runId), LAMBDA target :
        [target EXCEPT
           !.assistantMessageId = IF event.message_id # NULL THEN event.message_id ELSE @,
           !.status = "streaming"])

\* the case setting every turn of the list to streaming
onSegmentTokenAllTurns(base, runId, event) ==
    IF tokenOf(event) = <<>> THEN unchangedTurns(base)
    ELSE [withTarget(base, ensuredTurn(base, runId), LAMBDA target :
            [target EXCEPT !.assistantText = @ \o tokenOf(event)])
          EXCEPT !.state.turns = [i \in 1..Len(@) |-> [@[i] EXCEPT !.status = "streaming"]]]

onSegmentToken(base, runId, event) ==
    IF tokenOf(event) = <<>> THEN unchangedTurns(base)
    ELSE withTarget(base, ensuredTurn(base, runId), LAMBDA target :
            [target EXCEPT !.assistantText = @ \o tokenOf(event),
                           !.status = "streaming"])

\* the case with the content appended to the text as it is
onSegmentEndConcatenates(base, runId, event) ==
    withTarget(base, ensuredTurn(base, runId), LAMBDA target :
        [target EXCEPT
           !.assistantText = IF nonBlank(event.content) THEN @ \o event.content ELSE @,
           !.assistantMessageId = IF event.message_id # NULL THEN event.message_id ELSE @,
           !.status = "streaming"])

\* the case with the text replaced by the content
onSegmentEndReplaces(base, runId, event) ==
    withTarget(base, ensuredTurn(base, runId), LAMBDA target :
        [target EXCEPT
           !.assistantText = IF nonBlank(event.content) THEN event.content ELSE @,
           !.assistantMessageId = IF event.message_id # NULL THEN event.message_id ELSE @,
           !.status = "streaming"])

onSegmentEnd(base, runId, event) ==
    withTarget(base, ensuredTurn(base, runId), LAMBDA target :
        LET current == target.assistantText
            incoming_ == event.content
        IN  [target EXCEPT
               !.assistantText =
                  IF ~nonBlank(incoming_) THEN current
                  ELSE IF current = <<>> THEN incoming_
                  ELSE IF startsWith(incoming_, current) THEN incoming_
                  ELSE IF ~endsWith(current, incoming_) THEN current \o incoming_
                  ELSE current,
               !.assistantMessageId = IF event.message_id # NULL THEN event.message_id ELSE @,
               !.status = "streaming"])

onToolStart(base, runId, event) ==
    IF event.parent_tool_use_id # NULL THEN unchangedTurns(base)
    ELSE IF ~isUiVisible(event.ui_visible) THEN unchangedTurns(base)
    ELSE IF ~isDisplayableTopLevelToolName(event.tool_name) THEN unchangedTurns(base)
    ELSE IF event.tool_name = "repl_exec" THEN unchangedTurns(base)
    ELSE withTarget(base, ensuredTurn(base, runId), LAMBDA target :
            LET toolUseId == toolUseIdOf("tool", runId, event)
                command == IF event.tool_name = "bash_exec" THEN <<>> ELSE undefined
                label == IF event.tool_name = "bash_exec"
                         THEN <<"Running bash command">>
                         ELSE <<"Using ", event.tool_name>>
            IN  [target EXCEPT
                   !.workSteps = upsertWorkStep(@,
                      [id |-> <<"tool">> \o toolUseId, kind |-> "tool",
                       text |-> label, status |-> "streaming",
                       segmentIndex |-> event.segment_index,
                       toolUseId |-> toolUseId, toolName |-> event.tool_name,
                       command |-> command]),
                   !.status = "streaming"])

onBashCommandToken(base, runId, event) ==
    IF ~isUiVisible(event.ui_visible) THEN unchangedTurns(base)
    ELSE IF tokenOf(event) = <<>> THEN unchangedTurns(base)
    ELSE withTarget(base, ensuredTurn(base, runId), LAMBDA target :
            LET toolUseId == toolUseIdOf("tool", runId, event)
                stepId == <<"tool">> \o toolUseId
                ws == target.workSteps
            IN  [target EXCEPT !.workSteps = upsertWorkStep(@,
                    [id |-> stepId, kind |-> "tool",
                     text |-> fieldOr(ws, stepId, "text", <<"Running bash command">>),
                     status |-> fieldOr(ws, stepId, "status", "streaming"),
                     segmentIndex |-> event.segment_index,
                     toolUseId |-> toolUseId, toolName |-> "bash_exec",
                     command |-> appendChunk(fieldOf(ws, stepId, "command"), tokenOf(event)),
                     stdout |-> fieldOr(ws, stepId, "stdout", <<>>),
                     stderr |-> fieldOr(ws, stepId, "stderr", <<>>),
                     result |-> fieldOf(ws, stepId, "result")])])

onReplStart(base, runId, event) ==
    withTarget(base, ensuredTurn(base, runId), LAMBDA target :
        LET toolUseId == toolUseIdOf("repl", runId, event)
        IN  [target EXCEPT
               !.workSteps = upsertWorkStep(@,
                  [id |-> <<"repl">> \o toolUseId, kind |-> "repl",
                   text |-> <<"Running Python REPL">>, status |-> "streaming",
                   segmentIndex |-> event.segment_index,
                   toolUseId |-> toolUseId, toolName |-> "repl_exec",
                   code |-> orEmpty(event.code),
                   stdout |-> <<>>, stderr |-> <<>>, replEnv |-> NULL]),
               !.status = "streaming"])

onReplCodeToken(base, runId, event) ==
    IF tokenOf(event) = <<>> THEN unchangedTurns(base)
    ELSE withTarget(base, ensuredTurn(base, runId), LAMBDA target :
            LET toolUseId == toolUseIdOf("repl", runId, event)
                stepId == <<"repl">> \o toolUseId
                ws == target.workSteps
            IN  [target EXCEPT !.workSteps = upsertWorkStep(@,
                    [id |-> stepId, kind |-> "repl",
                     text |-> fieldOr(ws, stepId, "text", <<"Running Python REPL">>),
                     status |-> fieldOr(ws, stepId, "status", "streaming"),
                     segmentIndex |-> event.segment_index,
                     toolUseId |-> toolUseId, toolName |-> "repl_exec",
                     code |-> appendChunk(fieldOf(ws, stepId, "code"), tokenOf(event)),
                     stdout |-> fieldOr(ws, stepId, "stdout", <<>>),
                     stderr |-> fieldOr(ws, stepId, "stderr", <<>>),
                     replEnv |-> fieldOf(ws, stepId, "replEnv")])])

onReplStdout(base, runId, event) ==
    withTarget(base, ensuredTurn(base, runId), LAMBDA target :
        LET toolUseId == toolUseIdOf("repl", runId, event)
            stepId == <<"repl">> \o toolUseId
            ws == target.workSteps
        IN  [target EXCEPT !.workSteps = upsertWorkStep(@,
                [id |-> stepId, kind |-> "repl",
                 text |-> fieldOr(ws, stepId, "text", <<"Running Python REPL">>),
                 status |-> "streaming",
                 segmentIndex |-> event.segment_index,
                 toolUseId |-> toolUseId, toolName |-> "repl_exec",
                 code |-> fieldOf(ws, stepId, "code"),
                 stdout |-> appendChunk(fieldOf(ws, stepId, "stdout"), contentOf(event)),
                 stderr |-> fieldOr(ws, stepId, "stderr", <<>>),
                 replEnv |-> fieldOf(ws, stepId, "replEnv")])])

onReplStderr(base, runId, event) ==
    withTarget(base, ensuredTurn(base, runId), LAMBDA target :
        LET toolUseId == toolUseIdOf("repl", runId, event)
            stepId == <<"repl">> \o toolUseId
            ws == target.workSteps
        IN  [target EXCEPT !.workSteps = upsertWorkStep(@,
                [id |-> stepId, kind |-> "repl",
                 text |-> fieldOr(ws, stepId, "text", <<"Running Python REPL">>),
                 status |-> "streaming",
                 segmentIndex |-> event.segment_index,
                 toolUseId |-> toolUseId, toolName |-> "repl_exec",
                 code |-> fieldOf(ws, stepId, "code"),
                 stdout |-> fieldOr(ws, stepId, "stdout", <<>>),
                 stderr |-> appendChunk(fieldOf(ws, stepId, "stderr"), contentOf(event)),
                 replEnv |-> fieldOf(ws, stepId, "replEnv")])])

onReplEnv(base, runId, event) ==
    IF event.env = NULL THEN unchangedTurns(base)
    ELSE withTarget(base, ensuredTurn(base, runId), LAMBDA target :
            LET toolUseId == toolUseIdOf("repl", runId, event)
                stepId == <<"repl">> \o toolUseId
                ws == target.workSteps
            IN  [target EXCEPT !.workSteps = upsertWorkStep(@,
                    [id |-> stepId, kind |-> "repl",
                     text |-> fieldOr(ws, stepId, "text", <<"Running Python REPL">>),
                     status |-> fieldOr(ws, stepId, "status", "streaming"),
                     segmentIndex |-> event.segment_index,
                     toolUseId |-> toolUseId, toolName |-> "repl_exec",
                     code |-> fieldOf(ws, stepId, "code"),
                     stdout |-> fieldOr(ws, stepId, "stdout", <<>>),
                     stderr |-> fieldOr(ws, stepId, "stderr", <<>>),
                     result |-> fieldOf(ws, stepId, "result"),
                     replEnv |-> event.env])])

onReplEnd(base, runId, event) ==
    withTarget(base, ensuredTurn(base, runId), LAMBDA target :
        LET toolUseId == toolUseIdOf("repl", runId, event)
            stepId == <<"repl">> \o toolUseId
            ws == target.workSteps
            resultPayload == resultOrEmpty(event.result)
            nextStatus == IF resultPayload.status = "error" THEN "error" ELSE "done"
            replEnv == IF resultPayload.env # NULL THEN resultPayload.env
                       ELSE fieldOf(ws, stepId, "replEnv")
        IN  [target EXCEPT !.workSteps = upsertWorkStep(@,
                [id |-> stepId, kind |-> "repl",
                 text |-> fieldOr(ws, stepId, "text", <<"Running Python REPL">>),
                 status |-> nextStatus,
                 segmentIndex |-> event.segment_index,
                 toolUseId |-> toolUseId, toolName |-> "repl_exec",
                 code |-> fieldOf(ws, stepId, "code"),
                 stdout |-> appendChunk(fieldOf(ws, stepId, "stdout"), resultPayload.stdout),
                 stderr |-> appendChunk(fieldOf(ws, stepId, "stderr"), resultPayload.stderr),
                 result |-> resultPayload,
                 replEnv |-> replEnv])])

\* mergeKgGraphWithResult
mergeKgGraphWithResult(graph, toolName, toolResult) ==
    LET subgraph == extractKgSubgraphFromToolResult(toolName, toolResult)
    IN  IF ~subgraph.defined THEN graph
        ELSE recomputeMergedImportanceStats(
                mergeSubgraphIntoThreadGraph(graph, subgraph))

\* the case from `const existing = ...` on: toolUseId and the step found
\* under "tool-" + toolUseId in the ensured turn
applyToolResult(base, event, ensured, toolUseId, existingStep) ==
    LET resultPayload == resultOrEmpty(event.result)
        toolName == coalesce(existingStep.toolName, NULL, event.tool_name)
        success == resultPayload.status \in {"success", "completed"}
    IN  IF ~isDisplayableTopLevelToolName(toolName) THEN unchangedTurns(base)
        ELSE IF toolName = "bash_exec"
        THEN withTarget(base, ensured, LAMBDA target :
                [target EXCEPT !.workSteps = upsertWorkStep(@,
                    [id |-> <<"tool">> \o toolUseId, kind |-> "tool",
                     text |-> coalesce(existingStep.text, undefined,
                                       <<"Running bash command">>),
                     status |-> IF success THEN "done"
                                ELSE IF resultPayload.status = "streaming"
                                THEN "streaming" ELSE "error",
                     segmentIndex |-> event.segment_index,
                     toolUseId |-> toolUseId, toolName |-> "bash_exec",
                     command |-> coalesce(resultPayload.command, undefined,
                                          existingStep.command),
                     stdout |-> appendChunk(existingStep.stdout, resultPayload.stdout),
                     stderr |-> appendChunk(existingStep.stderr, resultPayload.stderr),
                     result |-> resultPayload])])
        ELSE [withTarget(base, ensured, LAMBDA target :
                [target EXCEPT !.workSteps = upsertWorkStep(@,
                    [id |-> <<"tool">> \o toolUseId, kind |-> "tool",
                     text |-> coalesce(existingStep.text, undefined,
                                  <<"Using ", coalesce(toolName, NULL,
                                                       ToString(toolUseId))>>)
                              \o <<"\n\nResult:\n">> \o safeJson(resultPayload),
                     status |-> IF success THEN "done" ELSE "error",
                     segmentIndex |-> event.segment_index,
                     toolUseId |-> toolUseId, toolName |-> toolName])])
              EXCEPT !.state.kgGraph =
                        mergeKgGraphWithResult(@, toolName, resultPayload)]

\* the case with a failed result also marking the turn as failed
findToolStepFailsTurn(base, event, ensured, toolUseId) ==
    LET reduced == applyToolResult(base, event, ensured, toolUseId,
                                   findStep(ensured.turns[ensured.index].workSteps,
                                            <<"tool">> \o toolUseId))
    IN  IF resultOrEmpty(event.result).status = "error"
           /\ reduced.state.turns # base.turns
        THEN [reduced EXCEPT !.state.turns[ensured.index].status = "error"]
        ELSE reduced

\* const target = nextTurns[ensured.index];
\* const existing = target.workSteps.find((s) => s.id === stepId)
findToolStep(base, event, ensured, toolUseId) ==
    applyToolResult(base, event, ensured, toolUseId,
                    findStep(ensured.turns[ensured.index].workSteps,
                             <<"tool">> \o toolUseId))

onToolResult(base, runId, event) ==
    IF event.parent_tool_use_id # NULL THEN unchangedTurns(base)
    ELSE IF ~isUiVisible(event.ui_visible) THEN unchangedTurns(base)
    ELSE IF event.tool_name = "repl_exec" THEN unchangedTurns(base)
    ELSE findToolStep(base, event, ensuredTurn(base, runId),
                      toolUseIdOf("tool", runId, event))

\* the case closing the steps that are still streaming
onCompleteClosesSteps(base, runId, event) ==
    LET reduced == withTarget(base, ensuredTurn(base, runId), LAMBDA target :
            [target EXCEPT
               !.assistantMessageId = IF event.message.id # NULL THEN event.message.id ELSE @,
               !.assistantText = IF nonBlank(event.message.content)
                                 THEN event.message.content ELSE @,
               !.workSteps = [i \in 1..Len(@) |->
                                [@[i] EXCEPT !.status = IF @ = "streaming" THEN "done" ELSE @]],
               !.status = "done"])
    IN  [reduced EXCEPT !.state.error = NULL]

onComplete(base, runId, event) ==
    LET reduced == withTarget(base, ensuredTurn(base, runId), LAMBDA target :
            [target EXCEPT
               !.assistantMessageId = IF event.message.id # NULL THEN event.message.id ELSE @,
               !.assistantText = IF nonBlank(event.message.content)
                                 THEN event.message.content ELSE @,
               !.status = "done"])
    IN  [reduced EXCEPT !.state.error = NULL]

\* the WS_EVENT branch of chatReducer
reduceEvent(state, event) ==
    LET runId == event.run_id
        base == baseStateOf(state, event)
    IN  CASE event.type = "main_agent_error" -> onError(base, runId, event)
          [] event.type = "main_agent_start" -> onStart(base, runId, event)
          [] event.type = "main_agent_thinking_start" -> onThinkingStart(base, runId, event)
          [] event.type = "main_agent_thinking_token" -> onThinkingToken(base, runId, event)
          [] event.type = "main_agent_thinking_end" -> onThinkingEnd(base, runId, event)
          [] event.type = "main_agent_thinking_title" -> onThinkingTitle(base, runId, event)
          [] event.type = "main_agent_segment_start" -> onSegmentStart(base, runId, event)
          [] event.type = "main_agent_segment_token" -> onSegmentToken(base, runId, event)
          [] event.type = "main_agent_segment_end" -> onSegmentEnd(base, runId, event)
          [] event.type = "main_agent_tool_start" -> onToolStart(base, runId, event)
          [] event.type = "main_agent_bash_command_token" -> onBashCommandToken(base, runId, event)
          [] event.type = "main_agent_repl_start" -> onReplStart(base, runId, event)
          [] event.type = "main_agent_repl_code_token" -> onReplCodeToken(base, runId, event)
          [] event.type = "main_agent_repl_stdout" -> onReplStdout(base, runId, event)
          [] event.type = "main_agent_repl_stderr" -> onReplStderr(base, runId, event)
          [] event.type = "main_agent_repl_env" -> onReplEnv(base, runId, event)
          [] event.type = "main_agent_repl_end" -> onReplEnd(base, runId, event)
          [] event.type = "main_agent_tool_result" -> onToolResult(base, runId, event)
          [] event.type = "main_agent_complete" -> onComplete(base, runId, event)
          [] OTHER -> unchangedTurns(base)

(***************************************************************************)
(* Hydration: parseTraceToSteps and hydrateTurns.                          *)
(***************************************************************************)
\* a content block none of whose optional properties is present
noBlock ==
    [type |-> NULL, segment_index |-> NoIndex, text |-> undefined,
     thinking |-> undefined, summary |-> undefined, id |-> <<>>,
     tool_use_id |-> <<>>, name |-> NULL, ui_visible |-> NULL,
     parent_tool_use_id |-> <<>>, input_code |-> undefined,
     input_command |-> undefined, content |-> undefinedResult,
     result |-> undefinedResult, env |-> NULL]

\* String.prototype.trim on a text
RECURSIVE trimText(_)
trimText(str) ==
    IF str = <<>> THEN <<>>
    ELSE IF Head(str) = " " THEN trimText(Tail(str))
    ELSE IF str[Len(str)] = " " THEN trimText(SubSeq(str, 1, Len(str) - 1))
    ELSE str

\* toolIndex.get(id) ?? `hist-tool-${id}`: every entry of toolIndex maps an
\* id to hist-tool-<id>, so both alternatives give the same step id
histToolStepId(toolUseId) == <<"hist-tool">> \o toolUseId

\* block.segment_index when it is a number, else the running index
segmentIndexOf(acc, block) == coalesce(block.segment_index, NoIndex, acc.index)

\* `${message.id}-${segmentIndex}`
segmentOf(acc, block, messageId) == <<messageId, ToString(segmentIndexOf(acc, block))>>

\* a ?? b ?? fallback on ids
firstId(a, b, fallback) == IF a # <<>> THEN a ELSE IF b # <<>> THEN b ELSE fallback

\* index += 1; continue
skipBlock(acc) == [acc EXCEPT !.index = @ + 1]

\* the block is nested under a step of repl_exec
parentHidden(steps, block) ==
    /\ block.parent_tool_use_id # <<>>
    /\ findStep(steps, histToolStepId(block.parent_tool_use_id)).toolName = "repl_exec"

\* a text block, `text` its trimmed text
parseText(acc, text) ==
    [acc EXCEPT !.assistantText = IF text # <<>> THEN text ELSE @,
                !.index = @ + 1]

\* a thinking block, `text` its trimmed text
parseThinking(acc, block, stepId, text) ==
    [acc EXCEPT
       !.steps = IF text = <<>> THEN @
                 ELSE upsertWorkStep(@,
                        [id |-> stepId, kind |-> "thinking", text |-> text,
                         status |-> "done",
                         segmentIndex |-> segmentIndexOf(acc, block),
                         title |-> block.summary]),
       !.index = @ + 1]

\* a tool_use block
parseToolUse(acc, block, toolUseId, toolName) ==
    IF ~isUiVisible(block.ui_visible) THEN skipBlock(acc)
    ELSE IF parentHidden(acc.steps, block) THEN skipBlock(acc)
    ELSE IF block.parent_tool_use_id = <<>> /\ ~isDisplayableTopLevelToolName(toolName)
    THEN skipBlock(acc)
    ELSE [acc EXCEPT
            !.steps = upsertWorkStep(@,
               [id |-> histToolStepId(toolUseId),
                kind |-> IF toolName = "repl_exec" THEN "repl" ELSE "tool",
                text |-> IF toolName = "repl_exec" THEN <<"Running Python REPL">>
                         ELSE IF toolName = "bash_exec" THEN <<"Running bash command">>
                         ELSE <<"Using ", toolName>>,
                status |-> "done",
                segmentIndex |-> segmentIndexOf(acc, block),
                toolUseId |-> toolUseId, toolName |-> toolName,
                code |-> IF toolName = "repl_exec" THEN block.input_code ELSE undefined,
                command |-> IF toolName = "bash_exec" THEN block.input_command
                            ELSE undefined]),
            !.index = @ + 1]

\* a tool_result block for the step `existingStep` of the tool `toolName`;
\* payload is the parsed result object when there is one
mergeBlockResult(acc, block, toolUseId, payload, existingStep, toolName) ==
    IF ~isUiVisible(block.ui_visible) THEN skipBlock(acc)
    ELSE IF parentHidden(acc.steps, block) THEN skipBlock(acc)
    ELSE IF toolName = NULL \/ ~isDisplayableTopLevelToolName(toolName)
    THEN skipBlock(acc)
    ELSE IF toolName \in {"repl_exec", "bash_exec"}
    \* this branch leaves the loop pass by `continue`, before index is
    \* incremented
    THEN [acc EXCEPT !.steps = upsertWorkStep(@,
            [id |-> histToolStepId(toolUseId),
             kind |-> IF toolName = "repl_exec" THEN "repl" ELSE "tool",
             text |-> coalesce(existingStep.text, undefined,
                               IF toolName = "repl_exec"
                               THEN <<"Running Python REPL">>
                               ELSE <<"Running bash command">>),
             status |-> IF payload.defined /\ payload.status = "error"
                        THEN "error" ELSE "done",
             segmentIndex |-> segmentIndexOf(acc, block),
             toolUseId |-> toolUseId, toolName |-> toolName,
             code |-> IF toolName = "repl_exec" THEN existingStep.code ELSE undefined,
             command |-> IF toolName = "bash_exec" /\ payload.defined
                            /\ payload.command # undefined
                         THEN payload.command
                         ELSE existingStep.command,
             stdout |-> appendChunk(existingStep.stdout,
                                    IF payload.defined THEN payload.stdout
                                    ELSE undefined),
             stderr |-> appendChunk(existingStep.stderr,
                                    IF payload.defined THEN payload.stderr
                                    ELSE undefined),
             result |-> payload,
             replEnv |-> IF toolName = "repl_exec" /\ payload.defined
                            /\ payload.env # NULL
                         THEN payload.env
                         ELSE existingStep.replEnv])]
    ELSE [acc EXCEPT
            !.steps = upsertWorkStep(@,
               [id |-> histToolStepId(toolUseId), kind |-> "tool",
                text |-> (IF hasStep(acc.steps, histToolStepId(toolUseId))
                          THEN existingStep.text \o <<"\n\nResult:\n">>
                          ELSE <<"Result:\n">>)
                         \o safeJson(resultOrEmpty(payload)),
                status |-> "done",
                segmentIndex |-> segmentIndexOf(acc, block),
                toolUseId |-> toolUseId,
                toolName |-> existingStep.toolName]),
            !.index = @ + 1]

\* const existing = steps.find(...);
\* const toolName = existing?.toolName ?? normalizeToolName(parsedResult ?? block.name):
\* a parsed result object is not a string and yields no name
findBlockStep(acc, block, toolUseId, payload, existingStep) ==
    mergeBlockResult(acc, block, toolUseId, payload, existingStep,
                     coalesce(existingStep.toolName, NULL,
                              IF payload.defined THEN NULL
                              ELSE normalizeToolName(block.name)))

\* a tool_result block
parseToolResult(acc, block, toolUseId, payload) ==
    findBlockStep(acc, block, toolUseId, payload,
                  findStep(acc.steps, histToolStepId(toolUseId)))

\* a repl_env block
parseReplEnv(acc, block, toolUseId, existingStep) ==
    IF block.env = NULL THEN skipBlock(acc)
    ELSE [acc EXCEPT
            !.steps = upsertWorkStep(@,
               [id |-> histToolStepId(toolUseId), kind |-> "repl",
                text |-> coalesce(existingStep.text, undefined,
                                  <<"Running Python REPL">>),
                status |-> coalesce(existingStep.status, NULL, "done"),
                segmentIndex |-> segmentIndexOf(acc, block),
                toolUseId |-> toolUseId, toolName |-> "repl_exec",
                code |-> existingStep.code,
                stdout |-> existingStep.stdout,
                stderr |-> existingStep.stderr,
                result |-> existingStep.result,
                replEnv |-> block.env]),
            !.index = @ + 1]

\* one pass of the loop over the blocks; acc holds assistantText, index, steps
parseBlock(acc, block, messageId) ==
    CASE block.type = "text" ->
            parseText(acc, trimText(orEmpty(block.text)))
      [] block.type = "thinking" ->
            parseThinking(acc, block,
                          <<"hist-thinking">> \o segmentOf(acc, block, messageId),
                          trimText(coalesce(block.thinking, undefined,
                                            orEmpty(block.text))))
      [] block.type = "tool_use" ->
            parseToolUse(acc, block,
                         firstId(block.id, block.tool_use_id,
                                 <<"tool">> \o segmentOf(acc, block, messageId)),
                         coalesce(normalizeToolName(block.name), NULL, "tool"))
      [] block.type = "tool_result" ->
            parseToolResult(acc, block,
                            firstId(block.tool_use_id, block.id,
                                    <<"tool-result">> \o segmentOf(acc, block, messageId)),
                            IF block.content.defined THEN block.content
                            ELSE block.result)
      [] block.type = "repl_env" ->
            parseReplEnv(acc, block,
                         firstId(block.tool_use_id, <<>>,
                                 <<"repl-env">> \o segmentOf(acc, block, messageId)),
                         findStep(acc.steps,
                                  histToolStepId(
                                     firstId(block.tool_use_id, <<>>,
                                             <<"repl-env">>
                                                \o segmentOf(acc, block, messageId)))))
      [] OTHER -> skipBlock(acc)

RECURSIVE parseBlocks(_, _, _)
parseBlocks(acc, blocks, messageId) ==
    IF blocks = <<>> THEN acc
    ELSE parseBlocks(parseBlock(acc, Head(blocks), messageId), Tail(blocks), messageId)

\* traceBlocks when the metadata carries some, else the content blocks of a
\* gemini_interleaved message
blocksOf(message) ==
    IF message.trace_blocks # <<>> THEN message.trace_blocks
    ELSE IF message.provider_format = "gemini_interleaved"
    THEN message.content_blocks ELSE <<>>

\* return { assistantText: assistantText || content, steps }
parsedTrace(message, parsed) ==
    [assistantText |-> IF parsed.assistantText = <<>> THEN orEmpty(message.content)
                       ELSE parsed.assistantText,
     steps |-> parsed.steps]

parseTraceToSteps(message) ==
    IF blocksOf(message) = <<>>
    THEN [assistantText |-> orEmpty(message.content), steps |-> <<>>]
    ELSE parsedTrace(message,
                     parseBlocks([assistantText |-> <<>>, index |-> 0, steps |-> <<>>],
                                 blocksOf(message), message.id))

\* a persisted message none of whose optional properties is present;
\* created_at is the value of Date.parse, NoTime when the property is missing
NoTime == -1

noMessage ==
    [id |-> NULL, role |-> NULL, content |-> undefined, content_blocks |-> <<>>,
     provider_format |-> NULL, run_id |-> NULL, trace_blocks |-> <<>>,
     created_at |-> NoTime]

timeOf(message) == IF message.created_at = NoTime THEN 0 ELSE message.created_at

\* a hydration that keeps the order of its input
sortByTimeKeepsOrder(messages) == messages

\* [...messages].sort((a, b) => aTime - bTime): the sort is stable
RECURSIVE sortByTime(_)
sortByTime(messages) ==
    IF messages = <<>> THEN <<>>
    ELSE LET first == CHOOSE i \in 1..Len(messages) :
                        /\ \A j \in 1..Len(messages) :
                              timeOf(messages[i]) <= timeOf(messages[j])
                        /\ \A j \in 1..(i - 1) :
                              timeOf(messages[j]) # timeOf(messages[i])
             rest == [k \in 1..(Len(messages) - 1) |->
                        IF k < first THEN messages[k] ELSE messages[k + 1]]
         IN  <<messages[first]>> \o sortByTime(rest)

\* the latest turn without assistant text, 0 when there is none
latestWithoutAssistantText(ts) ==
    IF \E i \in 1..Len(ts) : ts[i].assistantText = <<>>
    THEN CHOOSE i \in 1..Len(ts) :
            /\ ts[i].assistantText = <<>>
            /\ \A j \in (i + 1)..Len(ts) : ts[j].assistantText # <<>>
    ELSE 0

\* the assistant branch of the loop of hydrateTurns: `found` is the position
\* of the turn the message is bound to, 0 when a turn has to be made
bindAssistant(acc, msg, found, parsed) ==
    LET ts == IF found # 0 THEN acc.turns
              ELSE Append(acc.turns, makeTurn(acc.idSeq, msg.run_id, <<>>, "done"))
    IN  [turns |-> [ts EXCEPT ![IF found # 0 THEN found ELSE Len(acc.turns) + 1] =
                      [@ EXCEPT !.runId = IF msg.run_id # NULL THEN msg.run_id ELSE @,
                                !.assistantText = IF parsed.assistantText # <<>>
                                                  THEN parsed.assistantText ELSE @,
                                !.assistantMessageId = msg.id,
                                !.workSteps = IF parsed.steps # <<>> THEN parsed.steps ELSE @,
                                !.status = "done"]],
         idSeq |-> acc.idSeq + (IF found # 0 THEN 0 ELSE 1)]

\* the turn of the run of the message, else the latest turn without
\* assistant text, else 0
findTargetTurn(ts, runId) ==
    IF findTurnIndexByRun(ts, runId) # 0 THEN findTurnIndexByRun(ts, runId)
    ELSE latestWithoutAssistantText(ts)

\* one pass of the loop of hydrateTurns; acc holds turns and the number of
\* turn ids generated so far
hydrateMessage(acc, msg) ==
    IF msg.role = "user"
    THEN [acc EXCEPT !.turns = Append(@,
            [id |-> <<"turn", msg.id>>, runId |-> NULL,
             userText |-> orEmpty(msg.content), userMessageId |-> msg.id,
             assistantText |-> <<>>, assistantMessageId |-> NULL,
             status |-> "done", workSteps |-> <<>>])]
    ELSE IF msg.role # "assistant" THEN acc
    ELSE bindAssistant(acc, msg, findTargetTurn(acc.turns, msg.run_id),
                       parseTraceToSteps(msg))

RECURSIVE hydrateLoop(_, _)
hydrateLoop(acc, messages) ==
    IF messages = <<>> THEN acc
    ELSE hydrateLoop(hydrateMessage(acc, Head(messages)), Tail(messages))

hydrateTurns(messages, k) ==
    hydrateLoop([turns |-> <<>>, idSeq |-> k], sortByTime(messages))

\* step.toolResult ?? null: a WorkStep has no toolResult property
toolResultOf(step) == undefinedResult

RECURSIVE rebuildFromSteps(_, _)
rebuildFromSteps(graph, steps) ==
    IF steps = <<>> THEN graph
    ELSE rebuildFromSteps(
            IF Head(steps).kind # "tool" THEN graph
            ELSE mergeKgGraphWithResult(graph, Head(steps).toolName,
                                        toolResultOf(Head(steps))),
            Tail(steps))

RECURSIVE rebuildKgGraphFrom(_, _)
rebuildKgGraphFrom(graph, ts) ==
    IF ts = <<>> THEN graph
    ELSE rebuildKgGraphFrom(rebuildFromSteps(graph, Head(ts).workSteps), Tail(ts))

rebuildKgGraphFromTurns(ts) == rebuildKgGraphFrom(createEmptyKgMergedGraph, ts)

initialChatState ==
    [threadId |-> NULL, activeRunId |-> NULL, turns |-> <<>>,
     kgGraph |-> createEmptyKgMergedGraph, error |-> NULL]

\* the RESET case
\* the case keeping the graph and the error of the given state
onResetKeepsGraph(state, action) ==
    [state |-> [threadId |-> action.threadId,
                activeRunId |-> initialChatState.activeRunId,
                turns |-> initialChatState.turns,
                kgGraph |-> state.kgGraph,
                error |-> state.error,
                idSeq |-> state.idSeq],
     given |-> state.turns]

onReset(state, action) ==
    [state |-> [threadId |-> action.threadId,
                activeRunId |-> initialChatState.activeRunId,
                turns |-> initialChatState.turns,
                kgGraph |-> initialChatState.kgGraph,
                error |-> initialChatState.error,
                idSeq |-> state.idSeq],
     given |-> state.turns]

\* the LOCAL_USER_MESSAGE case
onLocalUserMessage(state, action) ==
    [state |-> [state EXCEPT
                  !.turns = Append(@, makeTurn(state.idSeq, NULL,
                                               action.message, "streaming")),
                  !.idSeq = @ + 1,
                  !.error = NULL],
     given |-> state.turns]

\* a hydration that keeps the turns the page already shows
onHydrateKeepsTurns(state, hydrated) ==
    [state |-> [state EXCEPT
                  !.turns = IF state.turns # <<>> THEN state.turns
                            ELSE hydrated.turns,
                  !.kgGraph = rebuildKgGraphFromTurns(hydrated.turns),
                  !.idSeq = hydrated.idSeq,
                  !.error = NULL],
     given |-> state.turns]

\* the HYDRATE_FROM_MESSAGES case, `hydrated` being hydrateTurns(messages)
onHydrate(state, hydrated) ==
    [state |-> [state EXCEPT
                  !.turns = hydrated.turns,
                  !.kgGraph = rebuildKgGraphFromTurns(hydrated.turns),
                  !.idSeq = hydrated.idSeq,
                  !.error = NULL],
     given |-> state.turns]

\* chatReducer; an action is a record with its type and its payload
chatReducer(state, action) ==
    CASE action.type = "RESET" -> onReset(state, action)
      [] action.type = "LOCAL_USER_MESSAGE" -> onLocalUserMessage(state, action)
      [] action.type = "HYDRATE_FROM_MESSAGES" ->
            onHydrate(state, hydrateTurns(action.messages, state.idSeq))
      [] OTHER -> reduceEvent(state, action.event)

(***************************************************************************)
(* The reducer as a state machine: the store holds one ChatState, every    *)
(* dispatch replaces it by chatReducer(state, action).                     *)
(***************************************************************************)
ChatIdle ==
    /\ threadId = initialChatState.threadId
    /\ activeRunId = initialChatState.activeRunId
    /\ turns = initialChatState.turns
    /\ kgGraph = initialChatState.kgGraph
    /\ error = initialChatState.error
    /\ idSeq = 0
    /\ history = <<>>

ChunkIdle ==
    /\ existing = undefined
    /\ incoming = undefined
    /\ appended = undefined
    /\ deliveries = 0

\* no graph has been handed to the power iteration
RankIdle ==
    /\ scoredGraph = createEmptyKgMergedGraph
    /\ rankNow = [num |-> <<>>, den |-> 1]
    /\ rounds = 0
    /\ exited = FALSE
    /\ stored = <<>>

\* the scheduler of a connection that has received nothing
SchedIdle ==
    /\ queue = <<>>
    /\ connected = TRUE
    /\ timerArmed = FALSE
    /\ accepted = <<>>
    /\ delivered = <<>>
    /\ batch = <<>>

\* no block has been persisted
TraceIdle == trace = <<>>

\* no request for messages is under way
PageIdle == fetches = <<>>

\* the ChatState held by the store
stateOf ==
    [threadId |-> threadId, activeRunId |-> activeRunId, turns |-> turns,
     kgGraph |-> kgGraph, error |-> error, idSeq |-> idSeq]

\* the store takes the state that the case of chatReducer for this action
\* returned
Commit(action, reduced) ==
    /\ threadId' = reduced.state.threadId
    /\ activeRunId' = reduced.state.activeRunId
    /\ turns' = reduced.state.turns
    /\ kgGraph' = reduced.state.kgGraph
    /\ error' = reduced.state.error
    /\ idSeq' = reduced.state.idSeq
    /\ history' = Append(history, action)
    /\ UNCHANGED chunkVars
    /\ UNCHANGED rankVars
    /\ UNCHANGED schedVars
    /\ UNCHANGED traceVars
    /\ UNCHANGED pageVars

\* dispatch(action)
Dispatch(action, reduced) ==
    /\ Len(history) < MaxEvents
    /\ Commit(action, reduced)

WsEvent(event) == [type |-> "WS_EVENT", event |-> event]

\* dispatch({ type: "WS_EVENT", event }): Case is the case of the switch
\* over event.type that the event enters
Receive(event, Case(_, _, _)) ==
    Dispatch(WsEvent(event), Case(baseStateOf(stateOf, event), event.run_id, event))

\* inputs of the model
RunIds == {NULL, "r1"}

okResult ==
    [emptyResult EXCEPT !.status = "success", !.stdout = <<"a">>]

failedResult ==
    [emptyResult EXCEPT !.status = "error", !.stderr = <<"b">>]

\* a result object without a status
bareResult == [emptyResult EXCEPT !.stdout = <<"a">>]

Results == {okResult, failedResult}

\* the tool calls of the model: a visible top-level shell call, a graph
\* query, a shell call whose name arrives padded, a hidden call, a call nested
\* under another one and a call without tool_use_id
ToolCalls ==
    {[noEvent EXCEPT !.run_id = "r1", !.tool_use_id = <<"t1">>, !.tool_name = "bash_exec"],
     [noEvent EXCEPT !.run_id = "r1", !.tool_use_id = <<"t2">>, !.tool_name = "kg_query"],
     [noEvent EXCEPT !.run_id = "r1", !.tool_use_id = <<"t3">>, !.tool_name = " bash_exec"],
     [noEvent EXCEPT !.run_id = "r1", !.tool_use_id = <<"t4">>, !.tool_name = "bash_exec",
                     !.ui_visible = "false"],
     [noEvent EXCEPT !.run_id = "r1", !.tool_use_id = <<"t5">>, !.tool_name = "bash_exec",
                     !.parent_tool_use_id = "t1"],
     [noEvent EXCEPT !.tool_name = "bash_exec"]}

ReplCalls ==
    {[noEvent EXCEPT !.run_id = "r1", !.tool_use_id = <<"p1">>]}

\* persisted messages of the model: a user message answered by a run whose
\* trace holds a thought, a shell call with its result and the answer
tracedAnswer ==
    <<[noMessage EXCEPT !.id = "m1", !.role = "user", !.content = <<"a">>,
                        !.created_at = 1],
      [noMessage EXCEPT !.id = "m2", !.role = "assistant", !.content = <<"a", "b">>,
                        !.run_id = "r1", !.created_at = 2,
                        !.trace_blocks =
                           <<[noBlock EXCEPT !.type = "thinking", !.thinking = <<"s">>],
                             [noBlock EXCEPT !.type = "tool_use", !.id = <<"t1">>,
                                             !.name = "bash_exec",
                                             !.input_command = <<"a">>],
                             [noBlock EXCEPT !.type = "tool_result",
                                             !.tool_use_id = <<"t1">>,
                                             !.content = okResult],
                             [noBlock EXCEPT !.type = "text", !.text = <<"a", "b">>]>>]>>

\* an answer without trace listed before the question it answers
plainAnswer ==
    <<[noMessage EXCEPT !.id = "m2", !.role = "assistant", !.content = <<"b">>,
                        !.created_at = 2],
      [noMessage EXCEPT !.id = "m1", !.role = "user", !.content = <<"a">>,
                        !.created_at = 1]>>

\* an answer whose trace holds a shell call t1, a call t5 nested under it
\* with its result, a REPL call p1 with a call t6 nested under it, and a
\* hidden call t4
nestedAnswer ==
    <<[noMessage EXCEPT !.id = "m1", !.role = "user", !.content = <<"a">>,
                        !.created_at = 1],
      [noMessage EXCEPT !.id = "m2", !.role = "assistant", !.content = <<"b">>,
                        !.run_id = "r1", !.created_at = 2,
                        !.trace_blocks =
                           <<[noBlock EXCEPT !.type = "tool_use", !.id = <<"t1">>,
                                             !.name = "bash_exec", !.segment_index = 0],
                             [noBlock EXCEPT !.type = "tool_use", !.id = <<"t5">>,
                                             !.name = "bash_exec", !.segment_index = 1,
                                             !.parent_tool_use_id = <<"t1">>],
                             [noBlock EXCEPT !.type = "tool_result",
                                             !.tool_use_id = <<"t5">>,
                                             !.segment_index = 1,
                                             !.parent_tool_use_id = <<"t1">>,
                                             !.content = okResult],
                             [noBlock EXCEPT !.type = "tool_use", !.id = <<"p1">>,
                                             !.name = "repl_exec", !.segment_index = 2],
                             [noBlock EXCEPT !.type = "tool_use", !.id = <<"t6">>,
                                             !.name = "bash_exec", !.segment_index = 3,
                                             !.parent_tool_use_id = <<"p1">>],
                             [noBlock EXCEPT !.type = "tool_use", !.id = <<"t4">>,
                                             !.name = "bash_exec", !.segment_index = 4,
                                             !.ui_visible = "false"],
                             [noBlock EXCEPT !.type = "text", !.text = <<"b">>,
                                             !.segment_index = 5]>>]>>

HydrateInputs == {tracedAnswer, plainAnswer, nestedAnswer}

\* the threads the page connects to
ThreadIds == {"th1", "th2"}

Reset ==
    \E thread \in ThreadIds :
        Dispatch([type |-> "RESET", threadId |-> thread],
                 onReset(stateOf, [type |-> "RESET", threadId |-> thread]))

LocalUserMessage ==
    LET action == [type |-> "LOCAL_USER_MESSAGE", message |-> <<"a">>]
    IN  Dispatch(action, onLocalUserMessage(stateOf, action))

HydrateFromMessages ==
    \E messages \in HydrateInputs :
        Dispatch([type |-> "HYDRATE_FROM_MESSAGES", messages |-> messages],
                 onHydrate(stateOf, hydrateTurns(messages, idSeq)))

\* an error event of the backend, with or without message and run id
ErrorEvents ==
    {[noEvent EXCEPT !.type = "main_agent_error", !.error = "boom"],
     [noEvent EXCEPT !.type = "main_agent_error", !.run_id = "r1"]}

RunError == \E event \in ErrorEvents : Receive(event, onError)

\* the message listener of connectChatSocket cannot parse the payload and
\* calls onError, which dispatches a main_agent_error event
InvalidPayload ==
    Receive([noEvent EXCEPT !.type = "main_agent_error",
                            !.error = "Invalid websocket payload"], onError)

RunStart ==
    \E run \in RunIds :
        Receive([noEvent EXCEPT !.type = "main_agent_start", !.run_id = run], onStart)

ThinkingStart ==
    \E run \in RunIds :
        Receive([noEvent EXCEPT !.type = "main_agent_thinking_start",
                                !.run_id = run, !.segment_index = 0], onThinkingStart)

ThinkingToken ==
    \E run \in RunIds :
        Receive([noEvent EXCEPT !.type = "main_agent_thinking_token",
                                !.run_id = run, !.segment_index = 0,
                                !.token = <<"a">>], onThinkingToken)

ThinkingEnd ==
    \E run \in RunIds, summary \in {undefined, <<"s">>} :
        Receive([noEvent EXCEPT !.type = "main_agent_thinking_end",
                                !.run_id = run, !.segment_index = 0,
                                !.summary = summary], onThinkingEnd)

ThinkingTitle ==
    \E run \in RunIds :
        Receive([noEvent EXCEPT !.type = "main_agent_thinking_title",
                                !.run_id = run, !.segment_index = 0,
                                !.summary = <<"t">>], onThinkingTitle)

SegmentStart ==
    \E run \in RunIds :
        Receive([noEvent EXCEPT !.type = "main_agent_segment_start",
                                !.run_id = run, !.message_id = "m2"], onSegmentStart)

SegmentToken ==
    \E run \in RunIds :
        Receive([noEvent EXCEPT !.type = "main_agent_segment_token",
                                !.run_id = run, !.token = <<"a">>], onSegmentToken)

SegmentEnd ==
    \E run \in RunIds, content \in {<<"a">>, <<"a", "b">>} :
        Receive([noEvent EXCEPT !.type = "main_agent_segment_end",
                                !.run_id = run, !.content = content], onSegmentEnd)

ToolStart ==
    \E call \in ToolCalls :
        Receive([call EXCEPT !.type = "main_agent_tool_start"], onToolStart)

BashCommandToken ==
    \E call \in ToolCalls :
        /\ call.tool_use_id \in {<<"t1">>, <<"t4">>}
        /\ Receive([call EXCEPT !.type = "main_agent_bash_command_token",
                                !.token = <<"a">>], onBashCommandToken)

ToolResult ==
    \E call \in ToolCalls, result \in Results :
        Receive([call EXCEPT !.type = "main_agent_tool_result",
                             !.result = result], onToolResult)

ReplStart ==
    \E call \in ReplCalls :
        Receive([call EXCEPT !.type = "main_agent_repl_start",
                             !.code = <<"a">>], onReplStart)

ReplCodeToken ==
    \E call \in ReplCalls :
        Receive([call EXCEPT !.type = "main_agent_repl_code_token",
                             !.token = <<"b">>], onReplCodeToken)

ReplStdout ==
    \E call \in ReplCalls :
        Receive([call EXCEPT !.type = "main_agent_repl_stdout",
                             !.content = <<"a">>], onReplStdout)

ReplStderr ==
    \E call \in ReplCalls :
        Receive([call EXCEPT !.type = "main_agent_repl_stderr",
                             !.content = <<"b">>], onReplStderr)

ReplEnv ==
    \E call \in ReplCalls :
        Receive([call EXCEPT !.type = "main_agent_repl_env", !.env = "env1"], onReplEnv)

ReplEnd ==
    \E call \in ReplCalls, result \in {okResult, failedResult} :
        Receive([call EXCEPT !.type = "main_agent_repl_end",
                             !.result = result], onReplEnd)

RunComplete ==
    \E run \in RunIds, content \in {undefined, <<" ">>, <<"a", "b">>} :
        Receive([noEvent EXCEPT !.type = "main_agent_complete",
                                !.run_id = run,
                                !.message = [id |-> "m2", content |-> content]], onComplete)

Init == ChatIdle /\ ChunkIdle /\ RankIdle /\ SchedIdle /\ TraceIdle /\ PageIdle

Next ==
    \/ Reset
    \/ LocalUserMessage
    \/ HydrateFromMessages
    \/ RunError
    \/ InvalidPayload
    \/ RunStart
    \/ ThinkingStart
    \/ ThinkingToken
    \/ ThinkingEnd
    \/ ThinkingTitle
    \/ SegmentStart
    \/ SegmentToken
    \/ SegmentEnd
    \/ ToolStart
    \/ BashCommandToken
    \/ ReplStart
    \/ ReplCodeToken
    \/ ReplStdout
    \/ ReplStderr
    \/ ReplEnv
    \/ ReplEnd
    \/ ToolResult
    \/ RunComplete

Spec == Init /\ [][Next]_vars

\* the reducer under the events of tool calls and of the run around them
NextTools ==
    \/ Reset
    \/ LocalUserMessage
    \/ RunStart
    \/ SegmentToken
    \/ ToolStart
    \/ BashCommandToken
    \/ ToolResult
    \/ RunComplete

SpecTools == Init /\ [][NextTools]_vars

(***************************************************************************)
(* Properties of the reducer.                                              *)
(***************************************************************************)
\* the action dispatched by the step from this state to the next one
dispatched == history'[Len(history')]

\* the step re-dispatches the action that was dispatched last
Redispatch ==
    /\ history # <<>>
    /\ history' = Append(history, history[Len(history)])

TerminalEventTypes ==
    {"main_agent_thinking_end", "main_agent_tool_result", "main_agent_repl_end",
     "main_agent_segment_end", "main_agent_complete"}

isTerminalEvent(action) ==
    /\ action.type = "WS_EVENT"
    /\ action.event.type \in TerminalEventTypes

\* a turn list without the generated turn ids
withoutTurnIds(ts) == [i \in 1..Len(ts) |-> [ts[i] EXCEPT !.id = <<>>]]

\* C1: applying a terminal event (thinking_end, tool_result, repl_end,
\* segment_end, run_complete) a second time right after the first leaves the
\* turn list as the first application made it: same turns, work steps, texts
\* and statuses.
C1_TerminalEventIdempotent ==
    [][Redispatch /\ isTerminalEvent(dispatched)
          => withoutTurnIds(turns') = withoutTurnIds(turns)]_vars

\* the work steps of the turn with this id, none when there is no such turn
stepsOfTurn(ts, id) ==
    IF \E i \in 1..Len(ts) : ts[i].id = id
    THEN ts[CHOOSE i \in 1..Len(ts) : ts[i].id = id].workSteps
    ELSE <<>>

\* C3: the status of a work step only moves forward: once a step is done or
\* error, no later event sets the step with the same key back to streaming.
C3_StepStatusMonotonic ==
    [][\A i \in 1..Len(turns) : \A j \in 1..Len(turns[i].workSteps) :
          LET step == turns[i].workSteps[j]
              later == stepsOfTurn(turns', turns[i].id)
          IN  step.status \in {"done", "error"}
                 => \A k \in 1..Len(later) :
                       later[k].id = step.id => later[k].status # "streaming"]_vars

isSuccessfulToolResult(action) ==
    /\ action.type = "WS_EVENT"
    /\ action.event.type = "main_agent_tool_result"
    /\ isSuccessfulResult(resultOrEmpty(action.event.result))

\* the tool_start event of the call a tool_result belongs to
toolStartOf(action) ==
    WsEvent([action.event EXCEPT !.type = "main_agent_tool_start",
                                 !.result = undefinedResult])

\* the positions of the steps of tool call `event` in a list of work steps
stepsForCall(workSteps, event) ==
    {j \in 1..Len(workSteps) :
        workSteps[j].id = <<"tool">> \o toolUseIdOf("tool", event.run_id, event)}

\* some turn of the run of `event` holds exactly one step for the call, done
oneDoneStep(ts, event) ==
    \E i \in 1..Len(ts) :
        /\ ts[i].runId = event.run_id
        /\ Cardinality(stepsForCall(ts[i].workSteps, event)) = 1
        /\ \A j \in stepsForCall(ts[i].workSteps, event) :
              ts[i].workSteps[j].status = "done"

\* the history ends with the tool_start of a call followed by one or more
\* deliveries of one successful tool_result of that call
deliveredAfterStart ==
    /\ history # <<>>
    /\ isSuccessfulToolResult(history[Len(history)])
    /\ \E k \in 1..(Len(history) - 1) :
          /\ history[k] = toolStartOf(history[Len(history)])
          /\ \A m \in (k + 1)..Len(history) : history[m] = history[Len(history)]

isShownCall(event) ==
    /\ event.parent_tool_use_id = NULL
    /\ isUiVisible(event.ui_visible)
    /\ normalizeToolName(event.tool_name) = "bash_exec"

pendingTurns == {i \in 1..Len(turns) : turns[i].runId = NULL}

\* C4: in every reachable state at most one pending turn (a turn with no
\* run id) exists.
C4_AtMostOnePendingTurn == Cardinality(pendingTurns) <= 1

\* C6: chatReducer never modifies the state it was given: after the call the
\* turns and work steps of the given state are what they were before it, so
\* reducing the same state with the same action again gives an equal result
\* (apart from generated turn ids).
C6_GivenStateUntouched ==
    [][history' # history =>
          LET first == chatReducer(stateOf, dispatched)
              again == chatReducer([stateOf EXCEPT !.turns = first.given], dispatched)
          IN  /\ first.given = turns
              /\ withoutTurnIds(again.state.turns) = withoutTurnIds(first.state.turns)]_vars

(***************************************************************************)
(* The thread graph as a state machine: kgGraph changes when the           *)
(* tool_result case of chatReducer merges the subgraph of a result, and in *)
(* the RESET and HYDRATE_FROM_MESSAGES cases.                              *)
(***************************************************************************)
\* rows of a subgraph payload none of whose properties is present
noNodeRow == [key |-> NULL, id |-> NULL, name |-> NULL, node_type |-> NULL, labels |-> <<>>]

noEdgeRow ==
    [source |-> NULL, target |-> NULL, type |-> NULL, weight |-> NoWeight,
     confidence_key |-> NULL]

drug(key) == [noNodeRow EXCEPT !.key = key, !.node_type = "Drug"]

treats(weight, confidence) ==
    [noEdgeRow EXCEPT !.source = "A", !.target = "B", !.type = "TREATS",
                      !.weight = weight, !.confidence_key = confidence]

\* a successful result of the knowledge graph that carries a subgraph
kgResult(nodes, edges) ==
    [emptyResult EXCEPT !.status = "success", !.source = "crossbar_kg",
                        !.subgraph = [defined |-> TRUE, nodes |-> nodes, edges |-> edges]]

\* Subgraph{nodes:[A,B](Drug), edges:[A-TREATS-B w=0.4]} and the same with w=0.9
treatsWeak == kgResult(<<drug("A"), drug("B")>>, <<treats(4, NULL)>>)
treatsStrong == kgResult(<<drug("A"), drug("B")>>, <<treats(9, "c1")>>)

\* the edge once more without weight, and a second edge type between A and B
treatsTwice ==
    kgResult(<<drug("A")>>,
             <<treats(NoWeight, "c2"),
               [treats(4, NULL) EXCEPT !.type = "CAUSES"],
               treats(4, NULL)>>)

\* a node of another type (taken from its label), an edge to it, an edge to
\* a node that is not in the graph, and rows without key, source or target
withDropped ==
    kgResult(<<[noNodeRow EXCEPT !.key = "C", !.labels = <<" ", "Disease">>],
               [noNodeRow EXCEPT !.name = "Z"]>>,
             <<[noEdgeRow EXCEPT !.source = "B", !.target = "C", !.weight = 4],
               [noEdgeRow EXCEPT !.source = "C", !.target = "Z", !.type = "TREATS"],
               [noEdgeRow EXCEPT !.source = "A"],
               [noEdgeRow EXCEPT !.target = "B"]>>)

\* two nodes of one type with different keys and the same name, no edges
namesakes ==
    kgResult(<<[drug("A") EXCEPT !.name = "Aspirin"],
               [drug("B") EXCEPT !.name = "Aspirin"]>>, <<>>)

\* three nodes of one type in a chain A -> B -> D of unequal weights
threeDrugs ==
    kgResult(<<drug("A"), drug("B"), drug("D")>>,
             <<treats(4, NULL),
               [noEdgeRow EXCEPT !.source = "B", !.target = "D", !.type = "CAUSES",
                                 !.weight = 9]>>)

\* the tool_result event of a call of `toolName` that returned `result`
kgCall(toolName, toolUseId, result) ==
    [noEvent EXCEPT !.type = "main_agent_tool_result", !.run_id = "r1",
                    !.tool_use_id = toolUseId, !.tool_name = toolName,
                    !.result = result]

\* results that reach the merger (their tool name passes the reducer as a
\* displayable one without being bash_exec itself), a failed one, one that
\* is not marked as coming from the knowledge graph, and the result of a
\* graph query, which the reducer does not let through
KgCalls ==
    {kgCall(" bash_exec", <<"k1">>, treatsWeak),
     kgCall(" bash_exec", <<"k1">>, treatsStrong),
     kgCall(" bash_exec", <<"k1">>, treatsTwice),
     kgCall(" bash_exec", <<"k1">>, withDropped),
     kgCall(" bash_exec", <<"k1">>, namesakes),
     kgCall(" bash_exec", <<"k1">>, threeDrugs),
     kgCall(" bash_exec", <<"k1">>, [treatsStrong EXCEPT !.status = "error"]),
     kgCall(" bash_exec", <<"k1">>, [treatsStrong EXCEPT !.source = NULL]),
     kgCall("kg_query", <<"k2">>, treatsStrong)}

\* the result of a call that carries a subgraph arrives
KgToolResult == \E event \in KgCalls : Receive(event, onToolResult)

NextGraph ==
    \/ KgToolResult
    \/ Reset
    \/ HydrateFromMessages
    \/ RunError
    \/ InvalidPayload

SpecGraph == Init /\ [][NextGraph]_vars

\* the step delivers a tool_result and the edges of the graph change with it
edgesMerged ==
    /\ history' # history
    /\ dispatched.type = "WS_EVENT"
    /\ dispatched.event.type = "main_agent_tool_result"
    /\ kgGraph'.edges_by_key # kgGraph.edges_by_key

\* the largest of the weights of `edges`, 0 when there is none
RECURSIVE heaviest(_)
heaviest(edges) ==
    IF edges = <<>> THEN 0 ELSE max(Head(edges).weight, heaviest(Tail(edges)))

\* weight and seen_count that the entry under `key` had among `entries`, both
\* 0 when there was no such entry
priorOf(entries, key) ==
    firstOr(SelectSeq(entries, LAMBDA entry : entry.key = key),
            [weight |-> 0, seen_count |-> 0])

\* the scenario: A-TREATS-B arrives with weight 0.4 and then with weight 0.9
weakThenStrong ==
    <<WsEvent(kgCall(" bash_exec", <<"k1">>, treatsWeak)),
      WsEvent(kgCall(" bash_exec", <<"k1">>, treatsStrong))>>

\* kgGraph holds one edge, A-TREATS-B, with this weight and seen_count
oneTreatsEdge(graph, weight, seen) ==
    /\ Len(graph.edges_by_key) = 1
    /\ graph.edges_by_key[1].key = <<"A", "|", "TREATS", "|", "B">>
    /\ graph.edges_by_key[1].weight = weight
    /\ graph.edges_by_key[1].seen_count = seen

\* C9: edges are keyed by (source, type, target): after a merge every key has
\* a single entry, whose weight is the maximum of the weight it had and the
\* weights merged under its key, and whose seen_count grew by one for each
\* edge merged under its key; merging A-TREATS-B with weight 0.4 and then
\* with weight 0.9 yields one edge with weight 0.9 and seen_count 2.
C9_EdgeKeptWithMaxWeight ==
    [][/\ edgesMerged =>
             LET arriving == normalizeSubgraph(dispatched.event.result.subgraph).edges
                 after == kgGraph'.edges_by_key
             IN  /\ \A i, j \in 1..Len(after) : after[i].key = after[j].key => i = j
                 /\ \A i \in 1..Len(after) :
                       LET same == SelectSeq(arriving,
                                      LAMBDA e : edgeKey(e) = after[i].key)
                           prior == priorOf(kgGraph.edges_by_key, after[i].key)
                       IN  /\ after[i].key = edgeKey(after[i])
                           /\ after[i].weight = max(prior.weight, heaviest(same))
                           /\ after[i].seen_count = prior.seen_count + Len(same)
       /\ history' = weakThenStrong => oneTreatsEdge(kgGraph', 9, 2)]_vars

\* A-TREATS-B has been merged with weight 0.4 and then with weight 0.9
C9_Witness ==
    /\ history = weakThenStrong
    /\ oneTreatsEdge(kgGraph, 9, 2)

\* every node and edge of `earlier` is in `later`, seen at least as often and
\* the edge at least as heavy, and there are at least as many of each
graphKept(earlier, later) ==
    /\ Len(later.nodes_by_key) >= Len(earlier.nodes_by_key)
    /\ Len(later.edges_by_key) >= Len(earlier.edges_by_key)
    /\ \A i \in 1..Len(earlier.nodes_by_key) :
          \E j \in 1..Len(later.nodes_by_key) :
             /\ later.nodes_by_key[j].key = earlier.nodes_by_key[i].key
             /\ later.nodes_by_key[j].seen_count >= earlier.nodes_by_key[i].seen_count
    /\ \A i \in 1..Len(earlier.edges_by_key) :
          \E j \in 1..Len(later.edges_by_key) :
             /\ later.edges_by_key[j].key = earlier.edges_by_key[i].key
             /\ later.edges_by_key[j].seen_count >= earlier.edges_by_key[i].seen_count
             /\ later.edges_by_key[j].weight >= earlier.edges_by_key[i].weight

\* C10: within a thread no node or edge is ever removed, and the counts, the
\* seen_counts and the edge weights never decrease: only a reset empties the
\* graph.
C10_GraphOnlyGrows ==
    [][history' # history /\ dispatched.type # "RESET"
          => graphKept(kgGraph, kgGraph')]_vars

(***************************************************************************)
(* The power iteration of computeWeightedPageRank in exact arithmetic.     *)
(* The ranks of one round are fractions over a common denominator:         *)
(* rankNow.num[i] / rankNow.den is ranks[nodeKeys[i]].  The graphs handed  *)
(* to the scorer have up to MaxNodes nodes of one type; MaxRounds rounds   *)
(* of the loop are followed, which keeps the denominators within 32-bit    *)
(* integers.  When the loop is left, Store writes round6(pagerank[key]) to *)
(* the nodes, in millionths.                                               *)
(***************************************************************************)
MaxNodes == 6
MaxRounds == 2

\* tol = 1e-9 is 1 / TolInverse; round6 rounds to 1 / Million
TolInverse == 1000000000
Million == 1000000

RECURSIVE gcd(_, _)
gcd(a, b) == IF b = 0 THEN a ELSE gcd(b, a % b)

lcm(a, b) == (a \div gcd(a, b)) * b

RECURSIVE gcdOfRow(_)
gcdOfRow(row) == IF row = <<>> THEN 0 ELSE gcd(Head(row), gcdOfRow(Tail(row)))

RECURSIVE lcmOfRow(_)
lcmOfRow(row) == IF row = <<>> THEN 1 ELSE lcm(Head(row), lcmOfRow(Tail(row)))

\* damping = 0.85 as a fraction in lowest terms
dampingNum == DampingPct \div gcd(DampingPct, 100)
dampingDen == 100 \div gcd(DampingPct, 100)

\* the least denominator of weight / out over the targets of one source
shareDen(row, out) == IF out <= 0 THEN 1 ELSE out \div gcd(out, gcdOfRow(row))

\* Math.round(value * 1_000_000) for value = num / den, by long division
RECURSIVE decimals(_, _, _, _)
decimals(quotient, remainder, den, places) ==
    IF places = 0 THEN [quotient |-> quotient, remainder |-> remainder]
    ELSE decimals(quotient * 10 + (remainder * 10) \div den,
                  (remainder * 10) % den, den, places - 1)

round6(num, den) ==
    LET digits == decimals(num \div den, num % den, den, 6)
    IN  digits.quotient + (IF 2 * digits.remainder >= den THEN 1 ELSE 0)

\* the round without the rank of the nodes that have no out-weight
exactNextNoDangling(n, r, adjacency, outWeight) ==
    LET shares == lcmOfRow(arrayOf([s \in 1..n |-> shareDen(adjacency[s], outWeight[s])], n))
        inflow(target) ==
            sumOver([source \in 1..n |->
                        IF outWeight[source] <= 0 \/ r.num[source] <= 0 THEN 0
                        ELSE dampingNum * n * r.num[source]
                                * ((adjacency[source][target] * shares)
                                      \div outWeight[source])], 1..n)
    IN  [num |-> arrayOf([key \in 1..n |->
                             (dampingDen - dampingNum) * shares * r.den + inflow(key)], n),
         den |-> dampingDen * n * shares * r.den,
         was |-> arrayOf([key \in 1..n |-> r.num[key] * dampingDen * n * shares], n)]

\* the round without the teleport term
exactNextNoTeleport(n, r, adjacency, outWeight) ==
    LET shares == lcmOfRow(arrayOf([s \in 1..n |-> shareDen(adjacency[s], outWeight[s])], n))
        dangling == sumOver([i \in 1..n |-> IF outWeight[i] <= 0 THEN r.num[i] ELSE 0], 1..n)
        inflow(target) ==
            sumOver([source \in 1..n |->
                        IF outWeight[source] <= 0 \/ r.num[source] <= 0 THEN 0
                        ELSE dampingNum * n * r.num[source]
                                * ((adjacency[source][target] * shares)
                                      \div outWeight[source])], 1..n)
    IN  [num |-> arrayOf([key \in 1..n |->
                             dampingNum * shares * dangling + inflow(key)], n),
         den |-> dampingDen * n * shares * r.den,
         was |-> arrayOf([key \in 1..n |-> r.num[key] * dampingDen * n * shares], n)]

\* body of the loop over iter: `next` over the denominator
\* dampingDen * n * shares * r.den, on which teleport is
\* (dampingDen - dampingNum) * shares * r.den, (damping * dangling) / n is
\* dampingNum * shares * dangling and scale * weight is
\* dampingNum * n * r.num[source] * weight * shares / out; `was` is `ranks`
\* over the same denominator
exactNext(n, r, adjacency, outWeight) ==
    LET shares == lcmOfRow(arrayOf([s \in 1..n |-> shareDen(adjacency[s], outWeight[s])], n))
        dangling == sumOver([i \in 1..n |-> IF outWeight[i] <= 0 THEN r.num[i] ELSE 0], 1..n)
        inflow(target) ==
            sumOver([source \in 1..n |->
                        IF outWeight[source] <= 0 \/ r.num[source] <= 0 THEN 0
                        ELSE dampingNum * n * r.num[source]
                                * ((adjacency[source][target] * shares)
                                      \div outWeight[source])], 1..n)
    IN  [num |-> arrayOf([key \in 1..n |->
                             (dampingDen - dampingNum) * shares * r.den
                                + dampingNum * shares * dangling + inflow(key)], n),
         den |-> dampingDen * n * shares * r.den,
         was |-> arrayOf([key \in 1..n |-> r.num[key] * dampingDen * n * shares], n)]

\* delta, as a numerator over next.den
deltaOf(next) ==
    sumOver([i \in 1..Len(next.num) |-> abs(next.num[i] - next.was[i])], 1..Len(next.num))

\* delta < tol; a numerator above 2 cannot pass, the denominators staying
\* below 2^31
belowTol(delta, den) == delta = 0 \/ (delta <= 2 /\ delta * TolInverse < den)

\* the same fractions in lowest terms
lowest(next) ==
    LET g == gcd(next.den, gcdOfRow(next.num))
    IN  [num |-> arrayOf([i \in 1..Len(next.num) |-> next.num[i] \div g], Len(next.num)),
         den |-> next.den \div g]

\* ranks[key] = base = 1 / n
baseRanks(n) == [num |-> arrayOf([i \in 1..n |-> 1], n), den |-> IF n = 0 THEN 1 ELSE n]

outWeightOf(graph) ==
    LET degrees == degreesOf(graph.nodes_by_key, linkedEdges(graph))
    IN  arrayOf([i \in 1..Len(degrees) |-> degrees[i].weighted_out_degree], Len(degrees))

\* the graphs of the model: n nodes "1", ..., "n" of one type and
\*   isolated  no edge
\*   unusable  an edge of weight 0 and an edge to a key that is no node
\*   chain     i -> i + 1, the last node has no out-weight
\*   ring      the chain closed by n -> 1
\*   fork      1 -> 2 and 1 -> 3 with weights w and 2 w, 2 -> 1
\*   funnel    2 -> 3 and every other node -> 2: no node is without
\*             out-weight and only 2 and 3 have an edge coming in
Shapes == {"isolated", "unusable", "chain", "ring", "fork", "funnel"}
Weights == {5, 10}

link(i, j, w) ==
    [noEdgeRow EXCEPT !.source = ToString(i), !.target = ToString(j), !.weight = w]

edgeRows(n, shape, w) ==
    CASE shape = "isolated" -> <<>>
      [] shape = "unusable" ->
            <<[link(1, 1, w) EXCEPT !.target = "Z"]>>
               \o (IF n >= 2 THEN <<link(1, 2, 0)>> ELSE <<>>)
      [] shape = "chain" -> arrayOf([i \in 1..(n - 1) |-> link(i, i + 1, w)], n - 1)
      [] shape = "ring" ->
            arrayOf([i \in 1..n |-> link(i, IF i = n THEN 1 ELSE i + 1, w)], n)
      [] shape = "fork" ->
            (IF n >= 2 THEN <<link(1, 2, w), link(2, 1, w)>> ELSE <<>>)
               \o (IF n >= 3 THEN <<link(1, 3, 2 * w)>> ELSE <<>>)
      [] shape = "funnel" ->
            arrayOf([i \in 1..n |-> link(i, IF i = 2 THEN (IF n >= 3 THEN 3 ELSE 1) ELSE 2, w)], n)

\* the merged graph that mergeSubgraphIntoThreadGraph hands to the scorer
\* for such a subgraph
graphOf(n, shape, w) ==
    mergeSubgraphIntoThreadGraph(
        createEmptyKgMergedGraph,
        normalizeSubgraph([defined |-> TRUE,
                           nodes |-> arrayOf([i \in 1..n |-> drug(ToString(i))], n),
                           edges |-> IF n = 0 THEN <<>> ELSE edgeRows(n, shape, w)]))

InitRank ==
    /\ ChatIdle
    /\ ChunkIdle
    /\ \E n \in 0..MaxNodes, shape \in Shapes, w \in Weights :
          /\ scoredGraph = graphOf(n, shape, w)
          /\ rankNow = baseRanks(n)
    /\ rounds = 0
    /\ exited = FALSE
    /\ stored = <<>>
    /\ SchedIdle
    /\ TraceIdle
    /\ PageIdle

\* one pass through the body of the loop
Round ==
    /\ scoredGraph.nodes_by_key # <<>>
    /\ ~exited
    /\ rounds < MaxIter
    /\ rounds < MaxRounds
    /\ LET next == exactNext(Len(scoredGraph.nodes_by_key), rankNow,
                             adjacencyOf(scoredGraph.nodes_by_key, linkedEdges(scoredGraph)),
                             outWeightOf(scoredGraph))
       IN  /\ rankNow' = lowest(next)
           /\ exited' = (belowTol(deltaOf(next), next.den) \/ rounds + 1 >= MaxIter)
    /\ rounds' = rounds + 1
    /\ UNCHANGED <<scoredGraph, stored>>
    /\ UNCHANGED chatVars
    /\ UNCHANGED chunkVars
    /\ UNCHANGED schedVars
    /\ UNCHANGED traceVars
    /\ UNCHANGED pageVars

\* metrics.pagerank = round6(pagerank[key]) for every node
Store ==
    /\ exited
    /\ stored = <<>>
    /\ stored' = arrayOf([i \in 1..Len(rankNow.num) |-> round6(rankNow.num[i], rankNow.den)],
                         Len(rankNow.num))
    /\ UNCHANGED <<scoredGraph, rankNow, rounds, exited>>
    /\ UNCHANGED chatVars
    /\ UNCHANGED chunkVars
    /\ UNCHANGED schedVars
    /\ UNCHANGED traceVars
    /\ UNCHANGED pageVars

NextRank == Round \/ Store

SpecRank == InitRank /\ [][NextRank]_vars

\* sum of the ranks as a numerator over rankNow.den, and of the stored
\* values in millionths
rankSum == sumOver(rankNow.num, 1..Len(rankNow.num))
storedSum == sumOver(stored, 1..Len(stored))

\* C11 as stated: after scoring a non-empty graph the PageRank values of
\* its nodes sum to 1 within 1e-6.
C11_StoredSumWithinTolerance ==
    stored # <<>> => abs(storedSum - Million) <= 1

\* C11, amended: every round of the power iteration conserves the total
\* rank, so the ranks of a non-empty graph sum to exactly 1 after every
\* round; the values written to the nodes are rounded to six decimals and
\* sum to 1 within N * 0.5e-6 for N nodes.
C11_RankConserved ==
    /\ scoredGraph.nodes_by_key # <<>> => rankSum = rankNow.den
    /\ stored # <<>> => 2 * abs(storedSum - Million) <= Len(stored)

\* a graph with weighted edges has been scored, the loop has been left and
\* the rounded values written to its nodes do not sum to exactly 1
C11_Witness ==
    /\ exited
    /\ stored # <<>>
    /\ \E i \in 1..Len(stored) : outWeightOf(scoredGraph)[i] > 0
    /\ storedSum # Million

\* a / b >= c / d for fractions with positive denominators, by comparing
\* the whole parts and then the reciprocals of the remainders
RECURSIVE atLeast(_, _, _, _)
atLeast(a, b, c, d) ==
    IF a \div b # c \div d THEN a \div b > c \div d
    ELSE IF c % d = 0 THEN TRUE
    ELSE IF a % b = 0 THEN FALSE
    ELSE atLeast(d, c % d, b, a % b)

\* no edge of the graph passes rank on: every node is without out-weight
noUsableEdges ==
    \A i \in 1..Len(scoredGraph.nodes_by_key) : outWeightOf(scoredGraph)[i] <= 0

reversed(seq) == [i \in 1..Len(seq) |-> seq[Len(seq) + 1 - i]]

\* the scored graph that results from merging the nodes and the edges of
\* `graph` into an empty graph in the opposite order
mergedInReverse(graph) ==
    recomputeMergedImportanceStats(
        mergeSubgraphIntoThreadGraph(
            createEmptyKgMergedGraph,
            [defined |-> TRUE,
             nodes |-> reversed(graph.nodes_by_key),
             edges |-> reversed(graph.edges_by_key)]))

\* score.rank_in_type of the node stored under `key`
rankOf(graph, key) ==
    graph.nodes_by_key[indexOfKey(graph.nodes_by_key, key)].score.rank_in_type

sameRanks(graph, other) ==
    \A i \in 1..Len(graph.nodes_by_key) :
        LET key == graph.nodes_by_key[i].key
        IN  /\ indexOfKey(other.nodes_by_key, key) # 0
            /\ rankOf(other, key) = rankOf(graph, key)

\* C13: ranking does not depend on the order of enumeration: the graph
\* that holds the same nodes and edges inserted in the opposite order gives
\* every node the same rank_in_type, and scoring the unchanged graph again
\* reproduces the ranks.
C13_RankIndependentOfOrder ==
    /\ sameRanks(kgGraph, mergedInReverse(kgGraph))
    /\ sameRanks(kgGraph, recomputeMergedImportanceStats(kgGraph))

\* C13, second half alone: scoring the unchanged graph again reproduces
\* the ranks.
RescoringKeepsRanks == sameRanks(kgGraph, recomputeMergedImportanceStats(kgGraph))

\* C13 for graphs in which no two nodes of one type have the same name
NamesDiffer ==
    \A i, j \in 1..Len(kgGraph.nodes_by_key) :
        i # j /\ kgGraph.nodes_by_key[i].node_type = kgGraph.nodes_by_key[j].node_type
            => kgGraph.nodes_by_key[i].name # kgGraph.nodes_by_key[j].name
OrderIndependentWhenNamesDiffer ==
    NamesDiffer => sameRanks(kgGraph, mergedInReverse(kgGraph))

\* events that report on a call opened earlier, and the events that open one
ReportingEventTypes ==
    {"main_agent_tool_result", "main_agent_repl_stdout", "main_agent_repl_stderr",
     "main_agent_repl_end"}
OpeningEventTypes == {"main_agent_tool_start", "main_agent_repl_start"}

\* no start event was received for the tool_use_id of `event` and no turn
\* holds a step for it
neverOpened(event) ==
    /\ event.tool_use_id # <<>>
    /\ \A k \in 1..Len(history) :
          ~ /\ history[k].type = "WS_EVENT"
            /\ history[k].event.type \in OpeningEventTypes
            /\ history[k].event.tool_use_id = event.tool_use_id
    /\ \A i \in 1..Len(turns) : \A j \in 1..Len(turns[i].workSteps) :
          turns[i].workSteps[j].toolUseId # event.tool_use_id

\* C14: a tool_result, repl_stdout, repl_stderr or repl_end event whose
\* tool_use_id was never opened by a start event leaves the turn list
\* unchanged: no turn and no WorkStep is created.
C14_UnopenedEventIsNoOp ==
    [][/\ history' # history
       /\ dispatched.type = "WS_EVENT"
       /\ dispatched.event.type \in ReportingEventTypes
       /\ neverOpened(dispatched.event)
       => turns' = turns]_vars

\* the action delivers a tool_result whose payload signals failure
isFailedToolResult(action) ==
    /\ action.type = "WS_EVENT"
    /\ action.event.type = "main_agent_tool_result"
    /\ action.event.result.defined
    /\ action.event.result.status = "error"

\* some turn holds the WorkStep of tool call `event`
hasMatchingStep(ts, event) ==
    \E i \in 1..Len(ts) : stepsForCall(ts[i].workSteps, event) # {}

\* a turn without its work steps
withoutSteps(turn) == [turn EXCEPT !.workSteps = <<>>]

\* between the turn lists `was` and `now` nothing differs but the WorkStep
\* of tool call `event`, which has status error in `now`
onlyStepSetToError(was, now, event) ==
    /\ Len(now) = Len(was)
    /\ \A i \in 1..Len(was) :
          /\ withoutSteps(now[i]) = withoutSteps(was[i])
          /\ Len(now[i].workSteps) = Len(was[i].workSteps)
          /\ \A j \in 1..Len(was[i].workSteps) :
                IF j \in stepsForCall(was[i].workSteps, event)
                THEN /\ now[i].workSteps[j].id = was[i].workSteps[j].id
                     /\ now[i].workSteps[j].status = "error"
                ELSE now[i].workSteps[j] = was[i].workSteps[j]

runHasMatchingStep(ts, event) ==
    /\ event.run_id # NULL
    /\ \E i \in 1..Len(ts) :
          /\ ts[i].runId = event.run_id
          /\ stepsForCall(ts[i].workSteps, event) # {}

isErrorEvent(action) ==
    action.type = "WS_EVENT" /\ action.event.type = "main_agent_error"

\* C16: a run_error event, the one dispatched for a websocket payload that
\* cannot be parsed included, only sets the session-level error: the turn
\* list is unchanged (every turn keeps its status, its assistant text and
\* its work steps) and so is the graph.
C16_ErrorOnlySetsSessionError ==
    [][history' # history /\ isErrorEvent(dispatched) =>
          /\ turns' = turns
          /\ kgGraph' = kgGraph
          /\ error' = IF dispatched.event.error # NULL THEN dispatched.event.error
                      ELSE "Unknown error"]_vars

\* a payload could not be parsed while a turn was streaming and the graph
\* held nodes: the error is set, the turn is still streaming
C16_Witness ==
    /\ history # <<>>
    /\ isErrorEvent(history[Len(history)])
    /\ error = "Invalid websocket payload"
    /\ kgGraph.nodes_by_key # <<>>
    /\ \E i \in 1..Len(turns) :
          /\ turns[i].status = "streaming"
          /\ turns[i].workSteps # <<>>

\* the tool_result `event` passes the reducer and its subgraph is merged
reachesMerger(event) ==
    /\ event.type = "main_agent_tool_result"
    /\ event.parent_tool_use_id = NULL
    /\ isUiVisible(event.ui_visible)
    /\ isDisplayableTopLevelToolName(event.tool_name)
    /\ event.tool_name \notin {"repl_exec", "bash_exec"}
    /\ extractKgSubgraphFromToolResult(event.tool_name,
                                       resultOrEmpty(event.result)).defined

\* the key of a raw node row and the edge key of a raw edge row, "" for a
\* row that lacks the key, the source or the target
rowKey(row) == IF row.key = NULL THEN "" ELSE trim(row.key)
rowEnds(row) ==
    [source |-> IF row.source = NULL THEN "" ELSE trim(row.source),
     target |-> IF row.target = NULL THEN "" ELSE trim(row.target),
     type |-> IF row.type = NULL \/ trim(row.type) = "" THEN "RELATED_TO"
              ELSE trim(row.type)]
isEdgeRow(row) == rowEnds(row).source # "" /\ rowEnds(row).target # ""

\* seen_count of the entry stored under `key`, 0 when there is none
seenCount(entries, key) ==
    IF indexOfKey(entries, key) = 0 THEN 0
    ELSE entries[indexOfKey(entries, key)].seen_count

\* every entry of `now` was in `was` or arrives with a row of the batch, and
\* every key of `keys` (one per row that is kept) has been seen once more
\* per row
mergedRows(was, now, keys) ==
    /\ \A i \in 1..Len(now) :
          seenCount(now, now[i].key)
             = seenCount(was, now[i].key)
                  + Cardinality({k \in 1..Len(keys) : keys[k] = now[i].key})
    /\ \A k \in 1..Len(keys) : indexOfKey(now, keys[k]) # 0
    /\ \A i \in 1..Len(was) : indexOfKey(now, was[i].key) # 0

\* C17: of a subgraph payload the nodes without key and the edges without
\* source or target are dropped, and every other node and edge of the batch
\* is merged: it has an entry in the graph whose seen_count has grown by the
\* number of its rows, no entry is lost and no entry has an empty key,
\* source or target.
C17_MalformedRowsDropped ==
    [][history' # history /\ dispatched.type = "WS_EVENT"
          /\ reachesMerger(dispatched.event) =>
          LET raw == dispatched.event.result.subgraph
              nodeRows == SelectSeq(raw.nodes, LAMBDA row : rowKey(row) # "")
              edgeRows_ == SelectSeq(raw.edges, isEdgeRow)
          IN  /\ mergedRows(kgGraph.nodes_by_key, kgGraph'.nodes_by_key,
                            [k \in 1..Len(nodeRows) |-> rowKey(nodeRows[k])])
              /\ mergedRows(kgGraph.edges_by_key, kgGraph'.edges_by_key,
                            [k \in 1..Len(edgeRows_) |-> edgeKey(rowEnds(edgeRows_[k]))])
              /\ \A i \in 1..Len(kgGraph'.nodes_by_key) :
                    kgGraph'.nodes_by_key[i].key # ""
              /\ \A i \in 1..Len(kgGraph'.edges_by_key) :
                    /\ kgGraph'.edges_by_key[i].source # ""
                    /\ kgGraph'.edges_by_key[i].target # ""]_vars

\* a batch with a node without key and edges without source or target has
\* been merged into a graph that held nodes: its other node and its other
\* edges are in the graph
C17_Witness ==
    /\ Len(history) >= 2
    /\ history[Len(history)].type = "WS_EVENT"
    /\ history[Len(history)].event.result = withDropped
    /\ indexOfKey(kgGraph.nodes_by_key, "A") # 0
    /\ indexOfKey(kgGraph.nodes_by_key, "C") # 0
    /\ Len(kgGraph.edges_by_key) >= 3

\* C18: RESET replaces the whole state at once: whatever the state before
\* (turns or steps still streaming included), afterwards the turn list is
\* empty, the graph is empty, error and activeRunId are cleared and threadId
\* is the requested thread.
C18_ResetReplacesState ==
    [][history' # history /\ dispatched.type = "RESET" =>
          /\ turns' = <<>>
          /\ kgGraph' = createEmptyKgMergedGraph
          /\ error' = NULL
          /\ activeRunId' = NULL
          /\ threadId' = dispatched.threadId]_vars

\* the thread was reset to th2 right after a result had been merged into
\* the graph in a streaming turn of run r1 and an error had been set
C18_Witness ==
    /\ Len(history) = 3
    /\ history[1] = WsEvent(kgCall(" bash_exec", <<"k1">>, treatsWeak))
    /\ isErrorEvent(history[2])
    /\ history[3] = [type |-> "RESET", threadId |-> "th2"]
    /\ turns = <<>>
    /\ threadId = "th2"

\* the turn of `ts` with the id of `turn`, as a set of at most one status
statusesOf(ts, id) == {ts[i].status : i \in {k \in 1..Len(ts) : ts[k].id = id}}

\* C19: turns are only mutated forward: under WS_EVENT and
\* LOCAL_USER_MESSAGE actions no turn is removed from the list, and a turn
\* that has reached status done is never put back to streaming by a later
\* event.
C19_TurnsOnlyMoveForward ==
    [][history' # history /\ dispatched.type \in {"WS_EVENT", "LOCAL_USER_MESSAGE"} =>
          \A i \in 1..Len(turns) :
              /\ statusesOf(turns', turns[i].id) # {}
              /\ turns[i].status = "done" =>
                    "streaming" \notin statusesOf(turns', turns[i].id)]_vars

\* C19, first half alone: no turn is removed under WS_EVENT and
\* LOCAL_USER_MESSAGE actions
NoTurnRemoved ==
    [][history' # history /\ dispatched.type \in {"WS_EVENT", "LOCAL_USER_MESSAGE"} =>
          /\ Len(turns') >= Len(turns)
          /\ \A i \in 1..Len(turns) : turns'[i].id = turns[i].id]_vars

(***************************************************************************)
(* Two runs interleaved.  The events of runs r1 and r2 reach the reducer   *)
(* in any order; both runs use the same tool_use_id for their shell call.  *)
(***************************************************************************)
TwoRuns == {"r1", "r2"}

\* the events of one run
startOf(run) == [noEvent EXCEPT !.type = "main_agent_start", !.run_id = run]
tokenFor(run) ==
    [noEvent EXCEPT !.type = "main_agent_segment_token", !.run_id = run,
                    !.token = IF run = "r1" THEN <<"a">> ELSE <<"b">>]
shellCallOf(run) ==
    [noEvent EXCEPT !.run_id = run, !.tool_use_id = <<"t1">>, !.tool_name = "bash_exec"]
shellStartOf(run) == [shellCallOf(run) EXCEPT !.type = "main_agent_tool_start"]
shellResultOf(run, result) ==
    [shellCallOf(run) EXCEPT !.type = "main_agent_tool_result", !.result = result]
completeOf(run) ==
    [noEvent EXCEPT !.type = "main_agent_complete", !.run_id = run,
                    !.message = [id |-> NULL, content |-> undefined]]

EventsOfRun(run) ==
    {startOf(run), tokenFor(run), shellStartOf(run), completeOf(run)}
        \cup {shellResultOf(run, result) : result \in Results}

TwoRunStart == \E run \in TwoRuns : Receive(startOf(run), onStart)
TwoSegmentToken == \E run \in TwoRuns : Receive(tokenFor(run), onSegmentToken)
TwoToolStart == \E run \in TwoRuns : Receive(shellStartOf(run), onToolStart)
TwoToolResult ==
    \E run \in TwoRuns, result \in Results :
        Receive(shellResultOf(run, result), onToolResult)
TwoRunComplete == \E run \in TwoRuns : Receive(completeOf(run), onComplete)

NextRuns ==
    \/ TwoRunStart
    \/ TwoSegmentToken
    \/ TwoToolStart
    \/ TwoToolResult
    \/ TwoRunComplete

SpecRuns == Init /\ [][NextRuns]_vars

\* the turn list after the store has reduced `first` and then `second`
turnsAfter(state, first, second) ==
    reduceEvent(reduceEvent(state, first).state, second).state.turns

\* a turn exists for both runs
bothTurnsExist(ts) ==
    \A run \in TwoRuns : \E i \in 1..Len(ts) : ts[i].runId = run

\* the turns of the other runs are the same in `was` and `now`
otherTurnsKept(was, now, run) ==
    \A i \in 1..Len(was) :
        was[i].runId # run => i <= Len(now) /\ now[i] = was[i]

\* C20: for two events that carry different run ids and whose turns both
\* exist, reducing one and then the other gives the same turn list as
\* reducing them in the opposite order, and an event of one run changes no
\* turn of the other run.
C20_CrossRunEventsCommute ==
    bothTurnsExist(turns) =>
        /\ \A e1 \in EventsOfRun("r1"), e2 \in EventsOfRun("r2") :
              turnsAfter(stateOf, e1, e2) = turnsAfter(stateOf, e2, e1)
        /\ \A run \in TwoRuns : \A event \in EventsOfRun(run) :
              otherTurnsKept(turns, reduceEvent(stateOf, event).state.turns, run)

\* events of r1, r2 and r1 again have been reduced: both turns exist, the
\* last event has changed the turn of r1 and the turn of r2 holds its token
C20_Witness ==
    /\ Len(history) = 3
    /\ history[1] = WsEvent(shellStartOf("r1"))
    /\ history[2] = WsEvent(tokenFor("r2"))
    /\ history[3] = WsEvent(shellResultOf("r1", failedResult))
    /\ bothTurnsExist(turns)
    /\ Len(turns) = 2
    /\ turns[1].workSteps # <<>>
    /\ turns[2].assistantText = <<"b">>

(***************************************************************************)
(* Event micro-batch scheduler (spec.md, section 4.1).  It stands between  *)
(* the transport and the reducer: an arriving event is appended to a FIFO, *)
(* and a timer tick dispatches events from its head to chatReducer.  A     *)
(* tick stops after the first token-class event and after MaxBurst events; *)
(* an empty queue disarms the timer; a disconnect discards the queue.      *)
(***************************************************************************)
MaxQueued == 4       \* events handed to the reducer or held in the queue
MaxBurst == 2        \* cap on the events one tick dispatches

\* a token-class event: one streamed piece of text
isTokenEvent(event) ==
    event.type \in {"main_agent_segment_token", "main_agent_thinking_token"}

\* the events the transport delivers
Arrivals == {startOf("r1"), tokenFor("r1"), tokenFor("r2"), completeOf("r1")}

\* the events one tick takes from the head of queue q, n being the number
\* it has already taken
RECURSIVE takeBatchThroughTokens(_, _)
takeBatchThroughTokens(q, n) ==
    IF q = <<>> \/ n >= MaxBurst THEN <<>>
    ELSE <<Head(q)>> \o takeBatchThroughTokens(Tail(q), n + 1)

RECURSIVE takeBatch(_, _)
takeBatch(q, n) ==
    IF q = <<>> \/ n >= MaxBurst THEN <<>>
    ELSE IF isTokenEvent(Head(q)) THEN <<Head(q)>>
    ELSE <<Head(q)>> \o takeBatch(Tail(q), n + 1)

\* the queue a tick leaves behind after dispatching `events`
leftInQueueSkipping(q, events) ==
    IF isTokenEvent(events[Len(events)])
    THEN SubSeq(q, Len(events) + 2, Len(q))
    ELSE SubSeq(q, Len(events) + 1, Len(q))

leftInQueue(q, events) == SubSeq(q, Len(events) + 1, Len(q))

\* dispatch({ type: "WS_EVENT", event }) for each event, in order
RECURSIVE dispatchAll(_, _)
dispatchAll(state, events) ==
    IF events = <<>> THEN state
    ELSE dispatchAll(reduceEvent(state, Head(events)).state, Tail(events))

\* the transport delivers an event: it joins the queue and arms the timer
Enqueue ==
    \E event \in Arrivals :
        /\ connected
        /\ Len(history) + Len(queue) < MaxQueued
        /\ queue' = Append(queue, event)
        /\ accepted' = Append(accepted, event)
        /\ timerArmed' = TRUE
        /\ UNCHANGED <<connected, delivered, batch>>
        /\ UNCHANGED chatVars
        /\ UNCHANGED chunkVars
        /\ UNCHANGED rankVars
        /\ UNCHANGED traceVars
        /\ UNCHANGED pageVars

\* the timer fires: what the tick does to the queue
Drain ==
    /\ timerArmed
    /\ batch' = takeBatch(queue, 0)
    /\ delivered' = delivered \o takeBatch(queue, 0)
    /\ queue' = leftInQueue(queue, takeBatch(queue, 0))
    /\ timerArmed' = (leftInQueue(queue, takeBatch(queue, 0)) # <<>>)
    /\ UNCHANGED <<connected, accepted>>

\* the timer fires: the events taken from the queue go to the reducer
Tick ==
    /\ Drain
    /\ LET events == takeBatch(queue, 0)
           reduced == dispatchAll(stateOf, events)
       IN  /\ threadId' = reduced.threadId
           /\ activeRunId' = reduced.activeRunId
           /\ turns' = reduced.turns
           /\ kgGraph' = reduced.kgGraph
           /\ error' = reduced.error
           /\ idSeq' = reduced.idSeq
           /\ history' = history \o [i \in 1..Len(events) |-> WsEvent(events[i])]
    /\ UNCHANGED chunkVars
    /\ UNCHANGED rankVars
    /\ UNCHANGED traceVars
    /\ UNCHANGED pageVars

\* the transport closes: the queued events are discarded
Disconnect ==
    /\ connected
    /\ connected' = FALSE
    /\ queue' = <<>>
    /\ timerArmed' = FALSE
    /\ UNCHANGED <<accepted, delivered, batch>>
    /\ UNCHANGED chatVars
    /\ UNCHANGED chunkVars
    /\ UNCHANGED rankVars
    /\ UNCHANGED traceVars
    /\ UNCHANGED pageVars

\* the transport opens again
Reconnect ==
    /\ ~connected
    /\ connected' = TRUE
    /\ accepted' = <<>>
    /\ delivered' = <<>>
    /\ batch' = <<>>
    /\ UNCHANGED <<queue, timerArmed>>
    /\ UNCHANGED chatVars
    /\ UNCHANGED chunkVars
    /\ UNCHANGED rankVars
    /\ UNCHANGED traceVars
    /\ UNCHANGED pageVars

NextSched == Enqueue \/ Tick \/ Disconnect \/ Reconnect

SpecSched == Init /\ [][NextSched]_vars

\* the timer, once armed, fires
SpecSchedLive == Init /\ [][NextSched]_vars /\ WF_schedVars(Drain)

\* the i-th event enqueued on this connection has been dispatched, or the
\* connection has closed
settled(i) == ~connected \/ Len(delivered) >= i

\* C21: while connected, the events dispatched so far followed by the events
\* still queued are exactly the events enqueued, in the order of enqueueing
\* (none reordered, duplicated or skipped); the reducer received the
\* dispatched events in that order; and every enqueued event is eventually
\* dispatched unless the connection closes first.
C21_FifoDispatch ==
    /\ [](connected => delivered \o queue = accepted)
    /\ [](\A i \in 1..Len(delivered) :
             history[Len(history) - Len(delivered) + i] = WsEvent(delivered[i]))
    /\ \A i \in 1..MaxQueued :
          (connected /\ Len(accepted) >= i) ~> settled(i)

C21_Witness ==
    /\ connected
    /\ Len(delivered) >= 3
    /\ delivered[1] # delivered[2]
    /\ isTokenEvent(delivered[2])
    /\ queue # <<>>

\* a step of the timer firing
ticked == timerArmed /\ connected' /\ accepted' = accepted /\ delivered' # delivered

tokensIn(events) == Cardinality({i \in 1..Len(events) : isTokenEvent(events[i])})

\* C22: the events one tick dispatches are a non-empty prefix of the queue
\* holding at most one token-class event, which is then the last of them,
\* and at most MaxBurst other events; so every tick moves the events behind
\* a run of tokens one place nearer to the head.
C22_OneTokenPerTick ==
    [][ticked =>
          /\ batch' # <<>>
          /\ batch' = SubSeq(queue, 1, Len(batch'))
          /\ queue' = SubSeq(queue, Len(batch') + 1, Len(queue))
          /\ tokensIn(batch') <= 1
          /\ \A i \in 1..Len(batch') : isTokenEvent(batch'[i]) => i = Len(batch')
          /\ Len(batch') - tokensIn(batch') <= MaxBurst]_vars

\* a tick has dispatched a burst that ends with a token while tokens and
\* then another event wait behind it
C22_Witness ==
    /\ Len(batch) = 2
    /\ isTokenEvent(batch[2])
    /\ Len(queue) >= 2
    /\ isTokenEvent(queue[1])
    /\ ~isTokenEvent(queue[Len(queue)])

(***************************************************************************)
(* How an event of a run finds its turn.                                   *)
(***************************************************************************)
\* the event dispatched carries run id `run` and is not a session error
isRunScoped(action, run) ==
    /\ action.type = "WS_EVENT"
    /\ action.event.type # "main_agent_error"
    /\ action.event.run_id = run

\* the event types whose case may return the state as it is, before or after
\* looking for the turn (hidden or nested tool events, empty tokens, a
\* repl_env without payload)
MayIgnore ==
    {"main_agent_tool_start", "main_agent_tool_result", "main_agent_bash_command_token",
     "main_agent_thinking_token", "main_agent_segment_token",
     "main_agent_repl_code_token", "main_agent_repl_env"}

\* turn i is what turn j was, now (or still) the turn of `run`
sameTurnOfRun(new, i, old, j, run) ==
    /\ new[i].runId = run
    /\ new[i].id = old[j].id
    /\ new[i].userText = old[j].userText

othersKept(new, old, i) ==
    /\ Len(new) = Len(old)
    /\ \A j \in 1..Len(old) : j # i => new[j] = old[j]

\* `new` is `old` after an event of `run` went to the turn that the order
\* "by run id, else latest pending turn, else new turn" gives
resolvedInOrder(old, new, run) ==
    LET ofRun == {i \in 1..Len(old) : old[i].runId = run}
        pending == {i \in 1..Len(old) :
                       /\ old[i].runId = NULL
                       /\ old[i].status = "streaming"
                       /\ old[i].assistantText = <<>>}
    IN  IF ofRun # {}
        THEN \E i \in ofRun :
                /\ \A j \in ofRun : i <= j
                /\ othersKept(new, old, i)
                /\ sameTurnOfRun(new, i, old, i, run)
        ELSE IF pending # {}
        THEN \E i \in pending :
                /\ \A j \in pending : j <= i
                /\ othersKept(new, old, i)
                /\ sameTurnOfRun(new, i, old, i, run)
        ELSE /\ Len(new) = Len(old) + 1
             /\ SubSeq(new, 1, Len(old)) = old
             /\ new[Len(new)].runId = run
             /\ new[Len(new)].userText = <<>>

\* C23: an event with run id R goes to the turn whose runId is R; else to
\* the latest pending turn (no runId, streaming, no assistant text), which
\* receives runId R and keeps its user text; else to a new turn with runId R
\* appended to the list; no other turn changes.  LOCAL_USER_MESSAGE followed
\* by main_agent_start of R gives one turn with the user text and runId R.
C23_TurnResolutionOrder ==
    [][\A run \in RunIds \ {NULL} :
          history' # history /\ isRunScoped(dispatched, run) =>
              /\ \/ resolvedInOrder(turns, turns', run)
                 \/ dispatched.event.type \in MayIgnore /\ turns' = turns
              /\ (/\ Len(history) = 1
                  /\ history[1].type = "LOCAL_USER_MESSAGE"
                  /\ dispatched.event.type = "main_agent_start") =>
                      /\ Len(turns') = 1
                      /\ turns'[1].userText = history[1].message
                      /\ turns'[1].runId = run]_vars

\* a pending turn and the turn of r1 both exist and an event of r1 has just
\* been reduced: it went to the turn of r1 and the pending turn still waits
C23_Witness ==
    /\ Len(history) = 3
    /\ history[3].type = "WS_EVENT"
    /\ history[3].event.run_id = "r1"
    /\ history[3].event.type = "main_agent_segment_token"
    /\ Len(turns) = 2
    /\ turns[1].runId = "r1"
    /\ turns[1].assistantText # <<>>
    /\ turns[2].runId = NULL
    /\ turns[2].userText # <<>>

\* every WorkStep of the turn list, turn after turn
RECURSIVE allSteps(_)
allSteps(ts) == IF ts = <<>> THEN <<>> ELSE Head(ts).workSteps \o allSteps(Tail(ts))

\* no thinking_start was received for the (run_id, segment_index) key of
\* `event` and no turn holds the thinking step of that key
unknownThinkingKey(event) ==
    /\ \A k \in 1..Len(history) :
          ~ /\ history[k].type = "WS_EVENT"
            /\ history[k].event.type = "main_agent_thinking_start"
            /\ history[k].event.run_id = event.run_id
            /\ history[k].event.segment_index = event.segment_index
    /\ \A i \in 1..Len(turns) :
          ~hasStep(turns[i].workSteps, thinkingStepId(event.run_id, event))

\* C24: a thinking_token or thinking_end event whose (run_id, segment_index)
\* key matches no thinking step opened by a thinking_start creates no
\* WorkStep and modifies none.
C24_UnknownThinkingKeyIsNoOp ==
    [][/\ history' # history
       /\ dispatched.type = "WS_EVENT"
       /\ dispatched.event.type \in {"main_agent_thinking_token", "main_agent_thinking_end"}
       /\ unknownThinkingKey(dispatched.event)
       => allSteps(turns') = allSteps(turns)]_vars

\* the part of C24 that concerns thinking_token
ThinkingTokenOfUnknownKeyKeepsSteps ==
    [][/\ history' # history
       /\ dispatched.type = "WS_EVENT"
       /\ dispatched.event.type = "main_agent_thinking_token"
       /\ unknownThinkingKey(dispatched.event)
       => allSteps(turns') = allSteps(turns)]_vars

\* the tool event is marked not visible or is nested under another call
isHiddenOrNestedEvent(event) ==
    /\ event.type \in {"main_agent_tool_start", "main_agent_tool_result"}
    /\ \/ event.ui_visible = "false"
       \/ event.parent_tool_use_id # NULL

\* the trace block of a tool call is marked not visible or is nested
isHiddenOrNestedBlock(block) ==
    /\ block.type \in {"tool_use", "tool_result"}
    /\ \/ block.ui_visible = "false"
       \/ block.parent_tool_use_id # <<>>

\* the messages without the hidden and nested tool blocks of their traces
topLevelOnly(messages) ==
    [i \in 1..Len(messages) |->
        [messages[i] EXCEPT !.trace_blocks =
            SelectSeq(@, LAMBDA block : ~isHiddenOrNestedBlock(block))]]

\* C25: a tool_start or tool_result that is marked not visible or carries a
\* parent_tool_use_id adds no WorkStep and changes none.  Live: the event
\* leaves every step as it was.  Hydration: the turns built from the
\* persisted messages are the turns built from the same messages without
\* the hidden and nested tool blocks.
C25_HiddenAndNestedNeverExposed ==
    [][history' # history =>
          /\ (dispatched.type = "WS_EVENT" /\ isHiddenOrNestedEvent(dispatched.event))
                => allSteps(turns') = allSteps(turns)
          /\ dispatched.type = "HYDRATE_FROM_MESSAGES"
                => turns' = hydrateTurns(topLevelOnly(dispatched.messages), idSeq).turns]_vars

\* the live half of C25
HiddenAndNestedEventsKeepSteps ==
    [][history' # history /\ dispatched.type = "WS_EVENT"
          /\ isHiddenOrNestedEvent(dispatched.event)
          => allSteps(turns') = allSteps(turns)]_vars

\* the hydration half of C25 for blocks marked not visible
withoutHiddenBlocks(messages) ==
    [i \in 1..Len(messages) |->
        [messages[i] EXCEPT !.trace_blocks =
            SelectSeq(@, LAMBDA block :
                ~(block.type \in {"tool_use", "tool_result"} /\ block.ui_visible = "false"))]]

HiddenBlocksNeverExposed ==
    [][history' # history /\ dispatched.type = "HYDRATE_FROM_MESSAGES"
          => turns' = hydrateTurns(withoutHiddenBlocks(dispatched.messages), idSeq).turns]_vars

\* the payload of a tool result signals failure
signalsFailure(result) == result.defined /\ result.status = "error"

\* the WorkSteps of tool call `event` in a turn list
matchingSteps(ts, event) ==
    SelectSeq(allSteps(ts), LAMBDA step : step.toolUseId = event.tool_use_id)

\* C26: after a tool_result the WorkStep of its tool call has status error
\* when the payload signals failure and status done when it does not, a
\* payload without status field included.
C26_DoneUnlessFailureSignalled ==
    [][/\ history' # history
       /\ dispatched.type = "WS_EVENT"
       /\ dispatched.event.type = "main_agent_tool_result"
       => \A k \in 1..Len(matchingSteps(turns', dispatched.event)) :
             matchingSteps(turns', dispatched.event)[k].status =
                IF signalsFailure(dispatched.event.result) THEN "error" ELSE "done"]_vars

\* the result of the tool_result `event` signals success and carries a
\* subgraph of the knowledge graph: the tool is kg_query or
\* kg_cypher_execute, or the source is crossbar_kg
carriesKgSubgraph(event) ==
    /\ event.result.defined
    /\ event.result.status \in {"success", "completed"}
    /\ event.result.subgraph.defined
    /\ \/ event.tool_name # NULL /\ trim(event.tool_name) \in KG_TOOL_NAMES
       \/ event.result.source = "crossbar_kg"

\* every row of `raw` that has its key, or its source and target, has an
\* entry in the graph
rowsPresent(graph, raw) ==
    /\ \A k \in 1..Len(raw.nodes) :
          rowKey(raw.nodes[k]) # "" =>
              \E i \in 1..Len(graph.nodes_by_key) :
                  graph.nodes_by_key[i].key = rowKey(raw.nodes[k])
    /\ \A k \in 1..Len(raw.edges) :
          isEdgeRow(raw.edges[k]) =>
              \E i \in 1..Len(graph.edges_by_key) :
                  graph.edges_by_key[i].key = edgeKey(rowEnds(raw.edges[k]))

\* C27: a tool_result changes kgGraph exactly when its result signals
\* success and carries a recognized knowledge-graph subgraph; then every
\* well-formed node and edge of the subgraph is in kgGraph afterwards and
\* the scores are those of the merged graph.
C27_GraphChangesIffKgSubgraph ==
    [][/\ history' # history
       /\ dispatched.type = "WS_EVENT"
       /\ dispatched.event.type = "main_agent_tool_result"
       => /\ kgGraph' # kgGraph <=> carriesKgSubgraph(dispatched.event)
          /\ carriesKgSubgraph(dispatched.event) =>
                /\ rowsPresent(kgGraph', dispatched.event.result.subgraph)
                /\ kgGraph' = recomputeMergedImportanceStats(kgGraph')]_vars

\* the half of C27 that holds: the graph changes only under a successful
\* result with a recognized subgraph, and what is merged is present and
\* scored
GraphChangesOnlyUnderKgSubgraph ==
    [][/\ history' # history
       /\ dispatched.type = "WS_EVENT"
       /\ dispatched.event.type = "main_agent_tool_result"
       /\ kgGraph' # kgGraph
       => /\ carriesKgSubgraph(dispatched.event)
          /\ rowsPresent(kgGraph', dispatched.event.result.subgraph)
          /\ kgGraph' = recomputeMergedImportanceStats(kgGraph')]_vars

\* the action delivers main_agent_complete of run `run`
isCompleteOf(action, run) ==
    /\ action.type = "WS_EVENT"
    /\ action.event.type = "main_agent_complete"
    /\ action.event.run_id = run

\* the assistant text the turn of `run` had in the turn list, "" when the
\* run had no turn
textOfRun(ts, run) ==
    IF \E i \in 1..Len(ts) : ts[i].runId = run
    THEN ts[CHOOSE i \in 1..Len(ts) :
               ts[i].runId = run /\ \A j \in 1..(i - 1) : ts[j].runId # run].assistantText
    ELSE <<>>

\* C29: after main_agent_complete of run R the turn of R has status done,
\* its assistant text is the content of the final message when that is not
\* blank and is what it was otherwise, and every work step is as it was: a
\* step still streaming stays streaming.
C29_CompleteFinalizesTurnOnly ==
    [][\A run \in RunIds \ {NULL} :
          history' # history /\ isCompleteOf(dispatched, run) =>
              /\ \E i \in 1..Len(turns') : turns'[i].runId = run
              /\ \A i \in 1..Len(turns') :
                    (turns'[i].runId = run /\ \A j \in 1..(i - 1) : turns'[j].runId # run) =>
                        /\ turns'[i].status = "done"
                        /\ turns'[i].assistantText =
                              IF nonBlank(dispatched.event.message.content)
                              THEN dispatched.event.message.content
                              ELSE textOfRun(turns, run)
              /\ allSteps(turns') = allSteps(turns)]_vars

\* the run has completed with a final message while its shell call was
\* still streaming
C29_Witness ==
    /\ Len(history) = 3
    /\ isCompleteOf(history[3], "r1")
    /\ nonBlank(history[3].event.message.content)
    /\ Len(turns) = 1
    /\ turns[1].status = "done"
    /\ turns[1].assistantText = history[3].event.message.content
    /\ Len(turns[1].workSteps) = 1
    /\ turns[1].workSteps[1].status = "streaming"

\* the step merges the subgraph of a tool_result into the graph
subgraphMerged ==
    /\ history' # history
    /\ dispatched.type = "WS_EVENT"
    /\ dispatched.event.type = "main_agent_tool_result"
    /\ kgGraph' # kgGraph

\* the property of a row is missing or empty
missingOrEmpty(value) == value = NULL \/ trim(value) = ""

\* the node of `key` in the graph
nodeOf(graph, key) == graph.nodes_by_key[indexOfKey(graph.nodes_by_key, key)]

\* the labels of a row that are not blank
labelsOf(row) ==
    {trim(row.labels[i]) : i \in 1..Len(row.labels)} \ {""}

\* the node `new` is the node `old` after the observation `row` was merged
\* into it: labels united, seen once more, non-empty values kept where the
\* row has none
mergedPreferringNonEmpty(old, new, row) ==
    /\ {new.labels[i] : i \in 1..Len(new.labels)}
          = {old.labels[i] : i \in 1..Len(old.labels)} \cup labelsOf(row)
    /\ new.seen_count = old.seen_count + 1
    /\ missingOrEmpty(row.name) /\ old.name # "" => new.name = old.name
    /\ missingOrEmpty(row.id) /\ old.id # "" => new.id = old.id
    /\ missingOrEmpty(row.node_type) /\ old.node_type # "" =>
          new.node_type = old.node_type

\* C32: when the subgraph of a raw tool result is merged, a node observed
\* for the first time has seen_count 1, and a node observed again has its
\* labels united with the new ones, seen_count one higher, and keeps its
\* name, id and node_type where the observation has none
C32_NodeMergePrefersNonEmpty ==
    [][subgraphMerged =>
          \A k \in 1..Len(dispatched.event.result.subgraph.nodes) :
              LET row == dispatched.event.result.subgraph.nodes[k]
                  rows == dispatched.event.result.subgraph.nodes
              IN  /\ rowKey(row) # ""
                  /\ \A j \in 1..Len(rows) : rowKey(rows[j]) = rowKey(row) => j = k
                  => IF indexOfKey(kgGraph.nodes_by_key, rowKey(row)) = 0
                     THEN nodeOf(kgGraph', rowKey(row)).seen_count = 1
                     ELSE mergedPreferringNonEmpty(nodeOf(kgGraph, rowKey(row)),
                                                   nodeOf(kgGraph', rowKey(row)),
                                                   row)]_vars

\* observations of the node `key` as mergeSubgraphIntoThreadGraph may be
\* handed them: with name, id or node_type empty
EmptyObservations(key) ==
    {[key |-> key, id |-> id, name |-> name, node_type |-> nodeType,
      labels |-> <<"Gene">>] :
        id \in {"", "x"}, name \in {"", "n"}, nodeType \in {"", "Gene"}}

\* the half of C32 that holds: mergeSubgraphIntoThreadGraph itself prefers
\* non-empty values, unites the labels and counts the observation
MergeNodePrefersNonEmpty ==
    \A i \in 1..Len(kgGraph.nodes_by_key) :
        \A node \in EmptyObservations(kgGraph.nodes_by_key[i].key) :
            LET old == kgGraph.nodes_by_key[i]
                new == mergeNode(kgGraph.nodes_by_key, node)[i]
            IN  /\ new.seen_count = old.seen_count + 1
                /\ {new.labels[j] : j \in 1..Len(new.labels)}
                      = {old.labels[j] : j \in 1..Len(old.labels)} \cup {"Gene"}
                /\ new.name = IF node.name = "" THEN old.name ELSE node.name
                /\ new.id = IF node.id = "" THEN old.id ELSE node.id
                /\ new.node_type = IF node.node_type = "" THEN old.node_type
                                   ELSE node.node_type

\* C33: a merged edge keeps the first confidence_key that is not null: when
\* a subgraph is merged, an edge whose confidence_key was set before has
\* the same confidence_key afterwards
C33_FirstConfidenceKeyRetained ==
    [][subgraphMerged =>
          \A i \in 1..Len(kgGraph.edges_by_key) :
              kgGraph.edges_by_key[i].confidence_key # NULL =>
                  /\ indexOfKey(kgGraph'.edges_by_key, kgGraph.edges_by_key[i].key) # 0
                  /\ kgGraph'.edges_by_key[
                        indexOfKey(kgGraph'.edges_by_key,
                                   kgGraph.edges_by_key[i].key)].confidence_key
                        = kgGraph.edges_by_key[i].confidence_key]_vars

\* the half of C33 that holds: an observation without confidence_key leaves
\* the confidence_key of the edge as it is
NullConfidenceKeyKeepsKey ==
    \A i \in 1..Len(kgGraph.edges_by_key) :
        LET old == kgGraph.edges_by_key[i]
            observed == [source |-> old.source, target |-> old.target,
                         type |-> old.type, weight |-> 0, confidence_key |-> NULL]
        IN  mergeEdge(kgGraph.edges_by_key, observed)[i].confidence_key
               = old.confidence_key

\* C34: the summary of the thread graph counts what the graph holds: its
\* nodes, its edges and the different types of its nodes
C34_SummaryCountsMatch ==
    /\ kgGraph.summary.node_count = Len(kgGraph.nodes_by_key)
    /\ kgGraph.summary.node_count
          = Cardinality({kgGraph.nodes_by_key[i].key : i \in 1..Len(kgGraph.nodes_by_key)})
    /\ kgGraph.summary.edge_count = Len(kgGraph.edges_by_key)
    /\ kgGraph.summary.edge_count
          = Cardinality({kgGraph.edges_by_key[i].key : i \in 1..Len(kgGraph.edges_by_key)})
    /\ kgGraph.summary.node_type_count
          = Cardinality({kgGraph.nodes_by_key[i].node_type :
                            i \in 1..Len(kgGraph.nodes_by_key)})

\* two results were merged and scored: the graph holds three nodes of two
\* types and three edges, one of them to a node that is not in the graph
C34_Witness ==
    /\ Len(kgGraph.nodes_by_key) = 3
    /\ Len(kgGraph.edges_by_key) = 3
    /\ kgGraph.summary.node_type_count = 2
    /\ \E i \in 1..3 : kgGraph.nodes_by_key[i].score.rank_in_type = 2

\* both endpoints of the edge are nodes of the graph
hasBothEndpoints(graph, edge) ==
    /\ \E i \in 1..Len(graph.nodes_by_key) : graph.nodes_by_key[i].key = edge.source
    /\ \E i \in 1..Len(graph.nodes_by_key) : graph.nodes_by_key[i].key = edge.target

\* the graph without the edges that miss an endpoint
withoutDangling(graph) ==
    [graph EXCEPT !.edges_by_key =
        SelectSeq(@, LAMBDA edge : hasBothEndpoints(graph, edge))]

\* the edges with both endpoints that leave (enter) the node `key`
usableOut(graph, key) ==
    SelectSeq(graph.edges_by_key,
              LAMBDA edge : edge.source = key /\ hasBothEndpoints(graph, edge))
usableIn(graph, key) ==
    SelectSeq(graph.edges_by_key,
              LAMBDA edge : edge.target = key /\ hasBothEndpoints(graph, edge))

\* C35: the metrics and scores of the thread graph are those of the graph
\* without the edges that miss an endpoint: degrees, weights and edge-type
\* diversity of a node count the edges with both endpoints only, and
\* PageRank, scores and ranks are what scoring gives without the others
C35_DanglingEdgesContributeNothing ==
    /\ \A i \in 1..Len(kgGraph.nodes_by_key) :
          LET node == kgGraph.nodes_by_key[i]
              outs == usableOut(kgGraph, node.key)
              ins == usableIn(kgGraph, node.key)
          IN  /\ node.metrics.out_degree = Len(outs)
              /\ node.metrics.in_degree = Len(ins)
              /\ node.metrics.weighted_out_degree = totalWeight(outs)
              /\ node.metrics.weighted_in_degree = totalWeight(ins)
              /\ node.metrics.weighted_degree = totalWeight(outs) + totalWeight(ins)
              /\ node.metrics.edge_type_diversity
                    = Cardinality({outs[k].type : k \in 1..Len(outs)}
                                     \cup {ins[k].type : k \in 1..Len(ins)})
    /\ kgGraph.nodes_by_key
          = recomputeMergedImportanceStats(withoutDangling(kgGraph)).nodes_by_key

\* the graph holds the edge from C to Z, Z is no node, and C is scored with
\* its one usable edge
C35_Witness ==
    /\ \E k \in 1..Len(kgGraph.edges_by_key) :
          /\ kgGraph.edges_by_key[k].source = "C"
          /\ ~hasBothEndpoints(kgGraph, kgGraph.edges_by_key[k])
    /\ \E i \in 1..Len(kgGraph.nodes_by_key) :
          /\ kgGraph.nodes_by_key[i].key = "C"
          /\ kgGraph.nodes_by_key[i].metrics.in_degree = 1
          /\ kgGraph.nodes_by_key[i].metrics.out_degree = 0
          /\ kgGraph.nodes_by_key[i].metrics.pagerank > 0

\* the nodes of the type of the node at position i
partitionOf(graph, i) ==
    {j \in 1..Len(graph.nodes_by_key) :
        graph.nodes_by_key[j].node_type = graph.nodes_by_key[i].node_type}

\* the values of the metric f in the partition of the node at position i
valuesIn(graph, i, f) ==
    {graph.nodes_by_key[j].metrics[f] : j \in partitionOf(graph, i)}

\* the min-max value of the metric f of the node at position i within its
\* partition, ScaleOne standing for 1: a partition of equal values gives 1
\* when the value is positive and 0 otherwise
minMaxInPartition(graph, i, f) ==
    LET lo == CHOOSE v \in valuesIn(graph, i, f) : \A w \in valuesIn(graph, i, f) : v <= w
        hi == CHOOSE v \in valuesIn(graph, i, f) : \A w \in valuesIn(graph, i, f) : v >= w
    IN  IF hi = lo THEN (IF hi > 0 THEN ScaleOne ELSE 0)
        ELSE ((graph.nodes_by_key[i].metrics[f] - lo) * ScaleOne) \div (hi - lo)

\* C36: within each node type the normalized PageRank, weighted degree and
\* edge-type diversity of a node are the min-max values of its metrics, in
\* [0, 1], and importance_score is
\* 0.55 normalized_pagerank + 0.30 normalized_weighted_degree
\*    + 0.15 normalized_edge_type_diversity, in [0, 1]
C36_ScoreIsWeightedMinMax ==
    \A i \in 1..Len(kgGraph.nodes_by_key) :
        LET score == kgGraph.nodes_by_key[i].score
        IN  /\ score.normalized_pagerank = minMaxInPartition(kgGraph, i, "pagerank")
            /\ score.normalized_weighted_degree
                  = minMaxInPartition(kgGraph, i, "weighted_degree")
            /\ score.normalized_edge_type_diversity
                  = minMaxInPartition(kgGraph, i, "edge_type_diversity")
            /\ score.normalized_pagerank \in 0..ScaleOne
            /\ score.normalized_weighted_degree \in 0..ScaleOne
            /\ score.normalized_edge_type_diversity \in 0..ScaleOne
            /\ 100 * score.importance_score
                     <= 55 * score.normalized_pagerank
                           + 30 * score.normalized_weighted_degree
                           + 15 * score.normalized_edge_type_diversity
            /\ 100 * (score.importance_score + 1)
                     > 55 * score.normalized_pagerank
                          + 30 * score.normalized_weighted_degree
                          + 15 * score.normalized_edge_type_diversity
            /\ score.importance_score \in 0..ScaleOne

\* three nodes of one type in a chain: the PageRank of the first is
\* normalized to 0, of the last to 1 and of the middle one to a value in
\* between, the weighted degree of the last one to a value in between
C36_Witness ==
    \E i, j, k \in 1..Len(kgGraph.nodes_by_key) :
        /\ j \in partitionOf(kgGraph, i)
        /\ k \in partitionOf(kgGraph, i)
        /\ kgGraph.nodes_by_key[i].score.normalized_pagerank = 0
        /\ kgGraph.nodes_by_key[j].score.normalized_pagerank \in 1..(ScaleOne - 1)
        /\ kgGraph.nodes_by_key[j].score.normalized_weighted_degree = ScaleOne
        /\ kgGraph.nodes_by_key[k].score.normalized_pagerank = ScaleOne
        /\ kgGraph.nodes_by_key[k].score.normalized_weighted_degree \in 1..(ScaleOne - 1)
        /\ kgGraph.nodes_by_key[k].score.importance_score \in 1..(ScaleOne - 1)

\* C37: within each node type the values of rank_in_type are exactly
\* 1..k for the k nodes of the type, each used once; a node with a higher
\* importance_score has a smaller rank; exactly the node of rank 1 is
\* flagged is_top_in_type; no node of the graph of a reachable state has
\* rank 0
C37_RanksArePermutationPerType ==
    \A i \in 1..Len(kgGraph.nodes_by_key) :
        LET score == kgGraph.nodes_by_key[i].score
        IN  /\ score.rank_in_type \in 1..Cardinality(partitionOf(kgGraph, i))
            /\ \A j \in partitionOf(kgGraph, i) :
                  /\ j # i =>
                        kgGraph.nodes_by_key[j].score.rank_in_type # score.rank_in_type
                  /\ kgGraph.nodes_by_key[j].score.importance_score
                        > score.importance_score
                     => kgGraph.nodes_by_key[j].score.rank_in_type < score.rank_in_type
            /\ score.is_top_in_type <=> score.rank_in_type = 1
            /\ Cardinality({j \in partitionOf(kgGraph, i) :
                              kgGraph.nodes_by_key[j].score.is_top_in_type}) = 1

\* the graph holds three nodes of one type ranked 1, 2 and 3 by different
\* scores and a node of another type ranked 1
C37_Witness ==
    \E i, j, k, l \in 1..Len(kgGraph.nodes_by_key) :
        /\ partitionOf(kgGraph, i) = {i, j, k}
        /\ kgGraph.nodes_by_key[i].score.rank_in_type = 1
        /\ kgGraph.nodes_by_key[j].score.rank_in_type = 2
        /\ kgGraph.nodes_by_key[k].score.rank_in_type = 3
        /\ kgGraph.nodes_by_key[i].score.importance_score
              > kgGraph.nodes_by_key[j].score.importance_score
        /\ kgGraph.nodes_by_key[j].score.importance_score
              > kgGraph.nodes_by_key[k].score.importance_score
        /\ partitionOf(kgGraph, l) = {l}
        /\ kgGraph.nodes_by_key[l].score.is_top_in_type

\* C39: no two turns of the turn list have the same run id
C39_OneTurnPerRun ==
    \A i, j \in 1..Len(turns) :
        i # j /\ turns[i].runId # NULL => turns[i].runId # turns[j].runId

\* the turn of r1 is followed by another turn, and the event dispatched
\* last, an event of r1, found the turn of r1
C39_Witness ==
    /\ Len(turns) = 2
    /\ turns[1].runId = "r1"
    /\ turns[2].runId = NULL
    /\ Len(history) = 3
    /\ history[3].type = "WS_EVENT"
    /\ history[3].event.run_id = "r1"
    /\ history[2].type = "LOCAL_USER_MESSAGE"

\* the ids of the steps, in the order of the list
stepIds(steps) == [j \in 1..Len(steps) |-> steps[j].id]

\* C40: in every turn the ids of the work steps are different, and an
\* event or a local message leaves every step of every turn at its
\* position: the ids a turn held are the first ids it holds afterwards, in
\* the same order
C40_StepsKeepPosition ==
    /\ [](\A i \in 1..Len(turns) :
             \A j, k \in 1..Len(turns[i].workSteps) :
                 j # k => turns[i].workSteps[j].id # turns[i].workSteps[k].id)
    /\ [][/\ history' # history
          /\ dispatched.type \in {"WS_EVENT", "LOCAL_USER_MESSAGE"}
          => /\ Len(turns') >= Len(turns)
             /\ \A i \in 1..Len(turns) :
                   /\ turns'[i].id = turns[i].id
                   /\ Len(turns'[i].workSteps) >= Len(turns[i].workSteps)
                   /\ SubSeq(stepIds(turns'[i].workSteps), 1, Len(turns[i].workSteps))
                         = stepIds(turns[i].workSteps)]_vars

\* a turn holds the step of a shell call and a step opened after it, and
\* the result of the shell call has updated the first step where it was
C40_Witness ==
    /\ Len(history) = 3
    /\ history[3].type = "WS_EVENT"
    /\ history[3].event.type = "main_agent_tool_result"
    /\ history[3].event.tool_use_id = <<"t1">>
    /\ Len(turns) = 1
    /\ Len(turns[1].workSteps) = 2
    /\ turns[1].workSteps[1].toolUseId = <<"t1">>
    /\ turns[1].workSteps[1].status = "done"
    /\ turns[1].workSteps[2].status = "streaming"

(***************************************************************************)
(* One run, live and replayed.  The events of a run r1 reach the reducer   *)
(* in order: main_agent_start, then segment tokens and the start and the   *)
(* result of a shell call, then main_agent_complete.  What the backend     *)
(* persists for the run is not part of the sources; persistedTrace and     *)
(* persistedMessages follow the description of the hydrate input: one      *)
(* assistant message carrying the run id and the trace of the run, a       *)
(* tool_use block per tool_start, a tool_result block per tool_result with *)
(* the result as its content, and a text block with the answer.            *)
(***************************************************************************)
MaxRunEvents == 5

\* the shell call of the run
runCall ==
    [noEvent EXCEPT !.run_id = "r1", !.tool_use_id = <<"t1">>,
                    !.tool_name = "bash_exec", !.segment_index = 0]

\* the run has started and has not completed
runOpen ==
    /\ history # <<>>
    /\ history[Len(history)].event.type # "main_agent_complete"

\* the events of type `type` dispatched so far
eventsOfType(type) == SelectSeq(history, LAMBDA action : action.event.type = type)

\* an event of the run arrives
Live(event, Case(_, _, _)) ==
    /\ Len(history) < MaxRunEvents
    /\ Commit(WsEvent(event), Case(baseStateOf(stateOf, event), event.run_id, event))

LiveRunStart ==
    /\ history = <<>>
    /\ Live([noEvent EXCEPT !.type = "main_agent_start", !.run_id = "r1"], onStart)

LiveSegmentToken ==
    /\ runOpen
    /\ Live([noEvent EXCEPT !.type = "main_agent_segment_token", !.run_id = "r1",
                            !.token = <<"a">>], onSegmentToken)

LiveToolStart ==
    /\ runOpen
    /\ eventsOfType("main_agent_tool_start") = <<>>
    /\ Live([runCall EXCEPT !.type = "main_agent_tool_start"], onToolStart)

LiveToolResult ==
    /\ runOpen
    /\ eventsOfType("main_agent_tool_start") # <<>>
    /\ \E result \in {okResult, failedResult, bareResult} :
          Live([runCall EXCEPT !.type = "main_agent_tool_result", !.result = result],
               onToolResult)

LiveRunComplete ==
    /\ runOpen
    /\ \E content \in {undefined, <<"a", "b">>} :
          Live([noEvent EXCEPT !.type = "main_agent_complete", !.run_id = "r1",
                               !.message = [id |-> "m2", content |-> content]],
               onComplete)

NextReplay ==
    \/ LiveRunStart
    \/ LiveSegmentToken
    \/ LiveToolStart
    \/ LiveToolResult
    \/ LiveRunComplete

SpecReplay == Init /\ [][NextReplay]_vars

\* the trace block persisted for one event of the run, none for the others
persistedBlock(event) ==
    CASE event.type = "main_agent_tool_start" ->
            <<[noBlock EXCEPT !.type = "tool_use", !.id = event.tool_use_id,
                              !.name = event.tool_name,
                              !.segment_index = event.segment_index]>>
      [] event.type = "main_agent_tool_result" ->
            <<[noBlock EXCEPT !.type = "tool_result",
                              !.tool_use_id = event.tool_use_id,
                              !.name = event.tool_name,
                              !.segment_index = event.segment_index,
                              !.content = event.result]>>
      [] OTHER -> <<>>

\* the blocks of the events, in the order of the events
RECURSIVE persistedTrace(_)
persistedTrace(actions) ==
    IF actions = <<>> THEN <<>>
    ELSE persistedBlock(Head(actions).event) \o persistedTrace(Tail(actions))

\* the streamed tokens of the answer, one after the other
RECURSIVE streamedText(_)
streamedText(actions) ==
    IF actions = <<>> THEN <<>>
    ELSE (IF Head(actions).event.type = "main_agent_segment_token"
          THEN Head(actions).event.token ELSE <<>>)
         \o streamedText(Tail(actions))

\* the answer of the run: the content of the completed message when it has
\* one, else the streamed text
answerOf(actions) ==
    IF nonBlank(actions[Len(actions)].event.message.content)
    THEN actions[Len(actions)].event.message.content
    ELSE streamedText(actions)

\* the persisted messages of the run
persistedMessages(actions) ==
    <<[noMessage EXCEPT
         !.id = "m2", !.role = "assistant", !.run_id = "r1", !.created_at = 1,
         !.content = answerOf(actions),
         !.trace_blocks =
            persistedTrace(actions)
               \o (IF answerOf(actions) = <<>> THEN <<>>
                   ELSE <<[noBlock EXCEPT !.type = "text",
                                          !.text = answerOf(actions)]>>)]>>

\* the run is complete and its shell call, if started, has its result
runReplayable ==
    /\ history # <<>>
    /\ history[Len(history)].event.type = "main_agent_complete"
    /\ eventsOfType("main_agent_tool_start") # <<>>
          => eventsOfType("main_agent_tool_result") # <<>>

\* the turn of run r1 in a turn list
turnOfRun(ts) == ts[findTurnIndexByRun(ts, "r1")]

\* what the equivalence compares of a work step
shapeOf(step) ==
    [kind |-> step.kind, toolName |-> step.toolName, text |-> step.text,
     stdout |-> orEmpty(step.stdout), stderr |-> orEmpty(step.stderr),
     status |-> step.status]

\* the two turns have the same assistant text and the same sequence of work
\* steps with the same kind, tool name, text, output and status
sameShape(a, b) ==
    /\ a.assistantText = b.assistantText
    /\ Len(a.workSteps) = Len(b.workSteps)
    /\ \A i \in 1..Len(a.workSteps) :
          i <= Len(b.workSteps) => shapeOf(a.workSteps[i]) = shapeOf(b.workSteps[i])

\* the turn list HYDRATE_FROM_MESSAGES builds from the persisted run
hydratedRun ==
    chatReducer(initialChatState @@ [idSeq |-> 0],
                [type |-> "HYDRATE_FROM_MESSAGES",
                 messages |-> persistedMessages(history)]).state.turns

\* C5: the turn a run produces live (run_start ... run_complete) is
\* structurally equal to the turn HYDRATE_FROM_MESSAGES reconstructs from the
\* persisted trace of the same run: same assistant text, same work steps with
\* the same kind, tool name, text and output fields and final status.
C5_HydrateEqualsLive ==
    runReplayable => sameShape(turnOfRun(turns), turnOfRun(hydratedRun))

(***************************************************************************)
(* The segments of one run.  The answer of run r1 arrives in segments:     *)
(* main_agent_segment_start, the tokens of the segment, and                *)
(* main_agent_segment_end carrying the text of the segment, which may be   *)
(* delivered more than once.                                               *)
(***************************************************************************)
\* the tokens received since the last event that is no token
RECURSIVE tokensSince(_)
tokensSince(actions) ==
    IF actions = <<>> THEN <<>>
    ELSE LET last == actions[Len(actions)].event
         IN  IF last.type = "main_agent_segment_token"
             THEN tokensSince(SubSeq(actions, 1, Len(actions) - 1)) \o last.token
             ELSE <<>>

\* the text that the segment_end due after `actions` carries: the content of
\* the segment_end just delivered, else the tokens of the open segment
closingText(actions) ==
    IF actions # <<>> /\ actions[Len(actions)].event.type = "main_agent_segment_end"
    THEN actions[Len(actions)].event.content
    ELSE tokensSince(actions)

OpenSegment ==
    Live([noEvent EXCEPT !.type = "main_agent_segment_start", !.run_id = "r1"],
         onSegmentStart)

StreamToken ==
    \E token \in {<<"a">>, <<"b">>} :
        Live([noEvent EXCEPT !.type = "main_agent_segment_token", !.run_id = "r1",
                             !.token = token], onSegmentToken)

\* the segment ends, or its segment_end is delivered once more
CloseSegment ==
    /\ closingText(history) # <<>>
    /\ Live([noEvent EXCEPT !.type = "main_agent_segment_end", !.run_id = "r1",
                            !.content = closingText(history)], onSegmentEnd)

NextSegments == OpenSegment \/ StreamToken \/ CloseSegment

SpecSegments == Init /\ [][NextSegments]_vars

\* C28: when every segment_end carries the tokens of its segment, delivered
\* once or several times, the assistant text of the run is the tokens of all
\* its segments in the order received: segment_end neither replaces the text
\* of earlier segments nor appends its content a second time.
C28_SegmentEndReconciled ==
    history # <<>> =>
        /\ Len(turns) = 1
        /\ turns[1].runId = "r1"
        /\ turns[1].assistantText = streamedText(history)

\* a second segment has been closed and its segment_end delivered twice
C28_Witness ==
    /\ Len(history) = 5
    /\ history[1].event.type = "main_agent_segment_token"
    /\ history[2].event.type = "main_agent_segment_end"
    /\ history[3].event.type = "main_agent_segment_token"
    /\ history[4].event.type = "main_agent_segment_end"
    /\ history[5].event.type = "main_agent_segment_end"
    /\ history[5].event.content = <<"b">>
    /\ turns[1].assistantText = <<"a", "b">>

(***************************************************************************)
(* A persisted run reloaded.  The backend stores the trace of the answer   *)
(* of run r1 block by block; the page may receive the first events of the  *)
(* run live and may load the stored messages at any moment, which          *)
(* dispatches HYDRATE_FROM_MESSAGES with the trace stored so far.          *)
(***************************************************************************)
MaxBlocks == 2

\* a shell result stored while the command was still running
partialResult == [emptyResult EXCEPT !.status = "streaming", !.stdout = <<"a">>]

\* the blocks a stored trace is made of
TraceBlocks ==
    {[noBlock EXCEPT !.type = "thinking", !.thinking = <<"s">>],
     [noBlock EXCEPT !.type = "text", !.text = <<"a">>],
     [noBlock EXCEPT !.type = "tool_use", !.id = <<"t1">>, !.name = "bash_exec"],
     [noBlock EXCEPT !.type = "tool_use", !.id = <<"p1">>, !.name = "repl_exec"],
     [noBlock EXCEPT !.type = "tool_result", !.tool_use_id = <<"t1">>,
                     !.content = partialResult],
     [noBlock EXCEPT !.type = "tool_result", !.tool_use_id = <<"t1">>,
                     !.content = failedResult],
     [noBlock EXCEPT !.type = "tool_result", !.tool_use_id = <<"p1">>,
                     !.name = "repl_exec", !.content = okResult],
     [noBlock EXCEPT !.type = "repl_env", !.tool_use_id = <<"p1">>, !.env = "env1"]}

\* the messages of the thread: the question and the answer of run r1 with
\* the trace `blocks`
messagesWith(blocks) ==
    <<[noMessage EXCEPT !.id = "m1", !.role = "user", !.content = <<"a">>,
                        !.created_at = 1],
      [noMessage EXCEPT !.id = "m2", !.role = "assistant", !.content = <<"a">>,
                        !.run_id = "r1", !.created_at = 2,
                        !.trace_blocks = blocks]>>

\* the backend stores one more block of the trace
PersistBlock ==
    \E block \in TraceBlocks :
        /\ Len(trace) < MaxBlocks
        /\ trace' = Append(trace, block)
        /\ UNCHANGED chatVars
        /\ UNCHANGED chunkVars
        /\ UNCHANGED rankVars
        /\ UNCHANGED schedVars
        /\ UNCHANGED pageVars

\* the run starts while the page is open
StartBeforeReload == Receive(startOf("r1"), onStart)

\* its shell call starts while the page is open
CallBeforeReload == Receive(shellStartOf("r1"), onToolStart)

\* the page loads the stored messages
HydrateTrace ==
    Dispatch([type |-> "HYDRATE_FROM_MESSAGES", messages |-> messagesWith(trace)],
             onHydrate(stateOf, hydrateTurns(messagesWith(trace), idSeq)))

NextTrace ==
    \/ PersistBlock
    \/ StartBeforeReload
    \/ CallBeforeReload
    \/ HydrateTrace

SpecTrace == Init /\ [][NextTrace]_vars

\* the action dispatched last was a hydration
hydratedLast ==
    /\ history # <<>>
    /\ history[Len(history)].type = "HYDRATE_FROM_MESSAGES"

\* C30: after HYDRATE_FROM_MESSAGES every turn has status done and every
\* work step has status done or error, whatever blocks the stored trace
\* holds and whatever was streaming before
C30_HydrationLeavesNothingStreaming ==
    hydratedLast =>
        \A i \in 1..Len(turns) :
            /\ turns[i].status = "done"
            /\ \A j \in 1..Len(turns[i].workSteps) :
                  turns[i].workSteps[j].status \in {"done", "error"}

\* a turn and its shell step were streaming, the stored trace holds the
\* call with a result stored while it was running, and the page reloaded
C30_Witness ==
    /\ Len(history) = 3
    /\ history[1] = WsEvent(startOf("r1"))
    /\ history[2] = WsEvent(shellStartOf("r1"))
    /\ hydratedLast
    /\ Len(trace) = 2
    /\ trace[2].type = "tool_result"
    /\ trace[2].content = partialResult
    /\ \E i \in 1..Len(turns) :
          /\ turns[i].runId = "r1"
          /\ Len(turns[i].workSteps) = 1
          /\ turns[i].workSteps[1].toolUseId = <<"t1">>

(***************************************************************************)
(* hydrateTurns on the stored messages of a thread, listed in any order.   *)
(* The page resets the state for the thread and then loads its messages    *)
(* (reconnect: dispatch RESET, then loadMessages).                         *)
(***************************************************************************)
MaxMessages == 3

\* the stored messages, in the order of their creation: two questions, two
\* answers of run r1 and an answer without run id
Stored ==
    <<[noMessage EXCEPT !.id = "m1", !.role = "user", !.content = <<"a">>,
                        !.created_at = 1],
      [noMessage EXCEPT !.id = "m2", !.role = "assistant", !.content = <<"a">>,
                        !.run_id = "r1", !.created_at = 2],
      [noMessage EXCEPT !.id = "m3", !.role = "user", !.content = <<"b">>,
                        !.created_at = 3],
      [noMessage EXCEPT !.id = "m4", !.role = "assistant", !.content = <<"b">>,
                        !.run_id = "r1", !.created_at = 4],
      [noMessage EXCEPT !.id = "m5", !.role = "assistant", !.content = <<"c">>,
                        !.created_at = 5]>>

\* the lists of up to MaxMessages different stored messages, in every order
StoredLists ==
    {list \in UNION {[1..n -> 1..Len(Stored)] : n \in 0..MaxMessages} :
        \A i, j \in 1..Len(list) : i # j => list[i] # list[j]}

\* loadMessages(threadId) after the RESET of reconnect
LoadStored ==
    \E list \in StoredLists :
        /\ history # <<>>
        /\ history[Len(history)].type = "RESET"
        /\ Dispatch([type |-> "HYDRATE_FROM_MESSAGES",
                     messages |-> [i \in 1..Len(list) |-> Stored[list[i]]]],
                    onHydrate(stateOf,
                              hydrateTurns([i \in 1..Len(list) |-> Stored[list[i]]],
                                           idSeq)))

NextHydrate ==
    \/ Reset
    \/ LoadStored

SpecHydrate == Init /\ [][NextHydrate]_vars

\* the messages of `messages` in the order of their creation
byCreation(messages) ==
    SelectSeq(Stored, LAMBDA msg : \E i \in 1..Len(messages) : messages[i] = msg)

\* the turn the claim gives an assistant message: the first turn of its
\* run, else the latest turn without assistant text, else a new last turn
claimedTarget(ts, msg) ==
    IF msg.run_id # NULL /\ \E i \in 1..Len(ts) : ts[i].runId = msg.run_id
    THEN CHOOSE i \in 1..Len(ts) :
            /\ ts[i].runId = msg.run_id
            /\ \A j \in 1..(i - 1) : ts[j].runId # msg.run_id
    ELSE IF \E i \in 1..Len(ts) : ts[i].assistantText = <<>>
    THEN CHOOSE i \in 1..Len(ts) :
            /\ ts[i].assistantText = <<>>
            /\ \A j \in (i + 1)..Len(ts) : ts[j].assistantText # <<>>
    ELSE Len(ts) + 1

\* `new` is `old` after the message: a user message has opened one turn at
\* the end, an assistant message went to the turn the claim gives it, and
\* every other turn is as before
foldedAsClaimed(old, new, msg) ==
    IF msg.role = "user"
    THEN /\ Len(new) = Len(old) + 1
         /\ SubSeq(new, 1, Len(old)) = old
         /\ new[Len(new)].userMessageId = msg.id
         /\ new[Len(new)].userText = orEmpty(msg.content)
         /\ new[Len(new)].assistantMessageId = NULL
    ELSE /\ Len(new) = IF claimedTarget(old, msg) > Len(old) THEN Len(old) + 1
                       ELSE Len(old)
         /\ \A i \in 1..Len(old) : i # claimedTarget(old, msg) => new[i] = old[i]
         /\ new[claimedTarget(old, msg)].assistantMessageId = msg.id
         /\ new[claimedTarget(old, msg)].assistantText = orEmpty(msg.content)
         /\ claimedTarget(old, msg) <= Len(old) =>
               /\ new[claimedTarget(old, msg)].id = old[claimedTarget(old, msg)].id
               /\ new[claimedTarget(old, msg)].userMessageId
                     = old[claimedTarget(old, msg)].userMessageId

\* the turns after the first n of the messages, folded in the given order
turnsFolded(messages, n, k) ==
    hydrateLoop([turns |-> <<>>, idSeq |-> k], SubSeq(messages, 1, n)).turns

\* C31: hydration folds the messages in the order of their creation,
\* whatever their order in the input: each user message opens one new turn,
\* each assistant message goes to the turn of its run, else to the latest
\* turn without assistant text, else to a new turn
C31_HydrationInCreationOrder ==
    [][dispatched.type = "HYDRATE_FROM_MESSAGES" =>
          /\ turns' = turnsFolded(byCreation(dispatched.messages),
                                 Len(dispatched.messages), idSeq)
          /\ \A n \in 1..Len(dispatched.messages) :
                foldedAsClaimed(
                   turnsFolded(byCreation(dispatched.messages), n - 1, idSeq),
                   turnsFolded(byCreation(dispatched.messages), n, idSeq),
                   byCreation(dispatched.messages)[n])]_vars

\* the second answer of run r1, the first one and the question were listed
\* in this order: one turn holds the question and the second answer
C31_Witness ==
    /\ hydratedLast
    /\ history[Len(history)].messages = <<Stored[4], Stored[2], Stored[1]>>
    /\ Len(turns) = 1
    /\ turns[1].userMessageId = "m1"
    /\ turns[1].runId = "r1"
    /\ turns[1].assistantMessageId = "m4"

(***************************************************************************)
(* The page: reconnect(threadId) dispatches RESET for the thread and       *)
(* starts the request for its messages; when the response arrives,         *)
(* loadMessages dispatches HYDRATE_FROM_MESSAGES with them.  Requests      *)
(* started one after the other may be answered in any order.               *)
(***************************************************************************)
\* the messages the backend holds for the thread
threadMessages(thread) == IF thread = "th1" THEN tracedAnswer ELSE plainAnswer

\* the list without its k-th element
withoutFetch(list, k) == SubSeq(list, 1, k - 1) \o SubSeq(list, k + 1, Len(list))

\* handleSelectThread(selectedId): reconnect dispatches RESET and calls
\* loadMessages, whose fetch is now under way
SelectThread ==
    \E thread \in ThreadIds :
        /\ thread # threadId
        /\ Len(history) < MaxEvents
        /\ LET action == [type |-> "RESET", threadId |-> thread]
               reduced == onReset(stateOf, action)
           IN  /\ threadId' = reduced.state.threadId
               /\ activeRunId' = reduced.state.activeRunId
               /\ turns' = reduced.state.turns
               /\ kgGraph' = reduced.state.kgGraph
               /\ error' = reduced.state.error
               /\ idSeq' = reduced.state.idSeq
               /\ history' = Append(history, action)
        /\ fetches' = Append(fetches, thread)
        /\ UNCHANGED chunkVars
        /\ UNCHANGED rankVars
        /\ UNCHANGED schedVars
        /\ UNCHANGED traceVars

\* loadMessages after the await: the response of one of the requests has
\* arrived and its messages are dispatched
MessagesFetched ==
    \E k \in 1..Len(fetches) :
        /\ Len(history) < MaxEvents
        /\ LET action == [type |-> "HYDRATE_FROM_MESSAGES",
                          messages |-> threadMessages(fetches[k])]
               reduced == onHydrate(stateOf,
                                    hydrateTurns(threadMessages(fetches[k]), idSeq))
           IN  /\ threadId' = reduced.state.threadId
               /\ activeRunId' = reduced.state.activeRunId
               /\ turns' = reduced.state.turns
               /\ kgGraph' = reduced.state.kgGraph
               /\ error' = reduced.state.error
               /\ idSeq' = reduced.state.idSeq
               /\ history' = Append(history, action)
        /\ fetches' = withoutFetch(fetches, k)
        /\ UNCHANGED chunkVars
        /\ UNCHANGED rankVars
        /\ UNCHANGED schedVars
        /\ UNCHANGED traceVars

\* if (!response.ok) return
FetchRefused ==
    \E k \in 1..Len(fetches) :
        /\ fetches' = withoutFetch(fetches, k)
        /\ UNCHANGED chatVars
        /\ UNCHANGED chunkVars
        /\ UNCHANGED rankVars
        /\ UNCHANGED schedVars
        /\ UNCHANGED traceVars

NextPage ==
    \/ SelectThread
    \/ MessagesFetched
    \/ FetchRefused
    \/ LocalUserMessage
    \/ RunStart

SpecPage == Init /\ [][NextPage]_vars

\* the thread of the last RESET among the first n actions
threadOfReset(n) ==
    history[CHOOSE j \in 1..n :
               /\ history[j].type = "RESET"
               /\ \A l \in (j + 1)..n : history[l].type # "RESET"].threadId

\* C38: every HYDRATE_FROM_MESSAGES that is applied carries the messages of
\* the thread of the last RESET before it, and after a hydration the turns
\* shown are those of the messages of the current thread
C38_NoStaleHydration ==
    /\ \A i \in 1..Len(history) :
          history[i].type = "HYDRATE_FROM_MESSAGES" =>
              history[i].messages = threadMessages(threadOfReset(i))
    /\ hydratedLast =>
          withoutTurnIds(turns)
             = withoutTurnIds(hydrateTurns(threadMessages(threadId), 0).turns)

\* the half of C38 that holds: every hydration carries the messages of a
\* thread that was selected before it, and while a thread has been
\* selected once only, the messages are those of the current thread
HydrationCarriesASelectedThread ==
    \A i \in 1..Len(history) :
        history[i].type = "HYDRATE_FROM_MESSAGES" =>
            /\ \E j \in 1..(i - 1) :
                  /\ history[j].type = "RESET"
                  /\ history[i].messages = threadMessages(history[j].threadId)
            /\ Cardinality({j \in 1..i : history[j].type = "RESET"}) = 1 =>
                  history[i].messages = threadMessages(threadOfReset(i))

(***************************************************************************)
(* appendChunk as a pure function: the arguments range over all strings    *)
(* of at most MaxLen characters (and the missing string); Redeliver hands  *)
(* the same chunk to the accumulated result once more.                     *)
(***************************************************************************)
ChunkArgs == StringsUpTo(MaxLen) \cup {undefined}

InitChunk ==
    /\ ChatIdle
    /\ RankIdle
    /\ SchedIdle
    /\ TraceIdle
    /\ PageIdle
    /\ existing \in ChunkArgs
    /\ incoming \in ChunkArgs
    /\ appended = undefined
    /\ deliveries = 0

CallAppendChunk ==
    /\ deliveries = 0
    /\ appended' = appendChunk(existing, incoming)
    /\ deliveries' = 1
    /\ UNCHANGED <<existing, incoming>>
    /\ UNCHANGED chatVars
    /\ UNCHANGED rankVars
    /\ UNCHANGED schedVars
    /\ UNCHANGED traceVars
    /\ UNCHANGED pageVars

Redeliver ==
    /\ deliveries \in 1..(MaxDeliveries - 1)
    /\ existing' = appended
    /\ deliveries' = deliveries + 1
    /\ appended' = appendChunk(appended, incoming)
    /\ UNCHANGED incoming
    /\ UNCHANGED chatVars
    /\ UNCHANGED rankVars
    /\ UNCHANGED schedVars
    /\ UNCHANGED traceVars
    /\ UNCHANGED pageVars

NextChunk == CallAppendChunk \/ Redeliver

SpecChunk == InitChunk /\ [][NextChunk]_vars

Hello == <<"H", "e", "l", "l", "o">>
World == <<"W", "o", "r", "l", "d">>
HelloWorld == Hello \o <<" ">> \o World

\* C7: chunk-safe append returns C if S is empty, else S if C is empty, else
\* S if S starts with C, else C if C ends with S, else C+S; the four worked
\* examples of the specification hold.
C7_ChunkSafeAppendRules ==
    /\ deliveries > 0 =>
          LET C == orEmpty(existing)
              S == orEmpty(incoming)
          IN  /\ S = <<>> => appended = C
              /\ S # <<>> /\ C = <<>> => appended = S
              /\ S # <<>> /\ C # <<>> /\ startsWith(S, C) => appended = S
              /\ S # <<>> /\ C # <<>> /\ ~startsWith(S, C) /\ endsWith(C, S)
                    => appended = C
              /\ S # <<>> /\ C # <<>> /\ ~startsWith(S, C) /\ ~endsWith(C, S)
                    => appended = C \o S
    /\ appendChunk(<<>>, Hello) = Hello
    /\ appendChunk(Hello, HelloWorld) = HelloWorld
    /\ appendChunk(HelloWorld, World) = HelloWorld
    /\ appendChunk(Hello, <<" ">> \o World) = HelloWorld

\* a cumulative resend ("a" then "ab") has been appended
C7_Witness ==
    /\ deliveries = 1
    /\ existing = <<"a">>
    /\ incoming = <<"a", "b">>
    /\ appended = <<"a", "b">>

\* C8: chunk-safe append is idempotent: appending the same chunk to the
\* result once more returns the result unchanged.
C8_AppendIdempotent ==
    /\ deliveries > 0 => appendChunk(appended, incoming) = appended
    /\ deliveries > 1 => appended = existing

\* the chunk was concatenated ("ab" + "b" is not a resend, "a" + "b" is new
\* text) and then delivered a second time
C8_Witness ==
    /\ deliveries = 2
    /\ incoming = <<"b">>
    /\ existing = <<"a", "b">>
    /\ appended = <<"a", "b">>

====
